---- MODULE Spec2Model ----
(***************************************************************************)
(* Model of the real-time core of the Teensy 3.5 engine-management         *)
(* firmware: the missing-tooth trigger decoder, the angle-based event      *)
(* scheduler with its FTM hardware-timer port, and the multi-stage         *)
(* (start/end) scheduler built on top of it.                               *)
(*                                                                         *)
(* uint32_t quantities that can wrap are kept in their 32-bit width.  TLC  *)
(* integers are 32-bit signed, so a uint32_t value u is represented by the *)
(* integer with the same two's-complement bit pattern: u itself below      *)
(* 2^31, u - 2^32 from 2^31 up (0xFFFFFFFF is -1).  Add32/Mul32 are the    *)
(* wrapping operations on that representation, LtU/LeU the unsigned order. *)
(***************************************************************************)
EXTENDS Integers, Sequences, FiniteSets, TLC

(***************************************************************************)
(* 32-bit unsigned arithmetic                                              *)
(***************************************************************************)
INT32_MAX == 2147483647

\* a + b modulo 2^32
Add32(a, b) ==
    IF a > 0 /\ b > 0 /\ b > INT32_MAX - a
    THEN ((a - INT32_MAX) - 1) + ((b - INT32_MAX) - 1)
    ELSE IF a < 0 /\ b < 0 /\ b < ((0 - INT32_MAX) - 1) - a
    THEN ((a + INT32_MAX) + 1) + ((b + INT32_MAX) + 1)
    ELSE a + b

\* a * n modulo 2^32, for a uint32_t a and 0 <= n (double-and-add)
RECURSIVE Mul32(_, _)
Mul32(a, n) ==
    IF n = 0 THEN 0
    ELSE LET h == Mul32(a, n \div 2)
             d == Add32(h, h)
         IN  IF n % 2 = 1 THEN Add32(d, a) ELSE d

\* unsigned a < b and a <= b
LtU(a, b) ==
    IF (a >= 0) = (b >= 0) THEN a < b ELSE a >= 0

LeU(a, b) == a = b \/ LtU(a, b)

(***************************************************************************)
(* Program constants                                                       *)
(***************************************************************************)
DEFAULT_SYNC_RATIO_FROM_X2 == 3      \* 1.5f, in halves
DEFAULT_SYNC_RATIO_TO_X2   == 6      \* 3.0f, in halves
MIN_TOOTH_PERIOD_US        == 100
UINT8_MOD                  == 256

(***************************************************************************)
(* Bounds of the model                                                     *)
(***************************************************************************)
MaxStampIdx    == 6      \* tooth timestamps are 0, 100, ..., 100 * MaxStampIdx
MaxToothEvents == 5      \* cap on tooth_event_counter
MaxSyncPoint   == 3      \* set_sync_point arguments are 0..MaxSyncPoint

TimeStamps   == {100 * k : k \in 0..MaxStampIdx}
TeethChoices == {2, 3}                \* wheels: total_teeth
SyncRatioChoices == {<<3, 6>>, <<4, 8>>}   \* (from, to) in halves

VARIABLES
    dec,        \* trigger_decoder_t
    sched,      \* event_scheduler_t
    hw,         \* hw_scheduler_t hw_sched (static in event_scheduler.c)
    ftm_channel_allocated,  \* static bool [4][8], as the set of <<ftm, channel>>
    ms,         \* multistage_scheduler_t
    now,        \* the microsecond clock
    calls,      \* number of main-loop API calls made so far
    hist,       \* history: which scheduled events ran / were cancelled
    ign,        \* ignition_control_t
    ecu,        \* ecu_state_t
    rpmc,       \* rpm_calculator_t
    cam,        \* cam_sync_state_t and the static g_sync_callback
    eng,        \* engine_controller_t
    injc,       \* injector_control_t
    main,       \* the main loop's position in a scheduler call and its locals
    last        \* observation of the last operation: its name, what it
                \* returned and which callbacks / actions it invoked

\* the controllers that stand beside the decoder and the schedulers
ctlVars == <<ign, ecu, rpmc, cam, eng, injc>>

vars == <<dec, sched, hw, ftm_channel_allocated, ms, now, calls, hist, main,
          ctlVars, last>>
schedVars == <<sched, hw, ftm_channel_allocated, ms, now, calls, hist, main,
               ctlVars>>

(***************************************************************************)
(* Trigger decoder (hal/trigger_decoder_k64.c)                             *)
(***************************************************************************)
NoObs ==
    [op |-> "none", gap |-> FALSE, tooth_cb |-> -1, sync_cb |-> FALSE,
     ret |-> 0, reason |-> "", arg |-> 0, id |-> -1, slots |-> {},
     seq |-> 0, action |-> "NULL"]

\* trigger_decoder_init: memset, then the configured wheel and defaults
DecoderInitState(teeth, missing) ==
    [ total_teeth          |-> teeth,
      missing_teeth        |-> missing,
      tooth_count          |-> 0,
      prev_tooth_time      |-> 0,
      prev_tooth_period    |-> 0,
      current_tooth_period |-> 0,
      sync_ratio_from_x2   |-> DEFAULT_SYNC_RATIO_FROM_X2,
      sync_ratio_to_x2     |-> DEFAULT_SYNC_RATIO_TO_X2,
      sync_locked          |-> FALSE,
      sync_point_tooth     |-> 0,
      sync_count           |-> 0,
      tooth_event_counter  |-> 0,
      sync_loss_count      |-> 0,
      last_sync_time       |-> 0,
      on_sync_callback     |-> FALSE,     \* NULL
      on_tooth_callback    |-> FALSE ]    \* NULL

\* ratio = period / prev_period lies in [sync_ratio_from, sync_ratio_to].
\* The float quotient is compared exactly: for periods below 2^23 the
\* rounding of the quotient cannot cross either limit.
IsSyncGap(d, period) ==
    /\ d.prev_tooth_period > 0
    /\ 2 * period >= d.sync_ratio_from_x2 * d.prev_tooth_period
    /\ 2 * period <= d.sync_ratio_to_x2 * d.prev_tooth_period

\* The gap branch of process_tooth (lines 98-116)
GapStep(d, ts) ==
    [d EXCEPT !.tooth_count    = d.sync_point_tooth,
              !.last_sync_time = ts,
              !.sync_locked    = TRUE,
              !.sync_count     = d.sync_count + 1]

\* (a variant of the validation block that forgets to advance the index
\* after the callback)
ValidateToothNoIncr(d) ==
    IF ~d.sync_locked THEN d
    ELSE IF d.tooth_count >= d.total_teeth
    THEN [d EXCEPT !.sync_locked     = FALSE,
                   !.sync_loss_count = d.sync_loss_count + 1,
                   !.tooth_count     = 0]
    ELSE d

\* The validation block of process_tooth (lines 125-141)
ValidateTooth(d) ==
    IF ~d.sync_locked THEN d
    ELSE IF d.tooth_count >= d.total_teeth
    THEN [d EXCEPT !.sync_locked     = FALSE,
                   !.sync_loss_count = d.sync_loss_count + 1,
                   !.tooth_count     = 0]
    ELSE [d EXCEPT !.tooth_count = (d.tooth_count + 1) % UINT8_MOD]

\* The index handed to on_tooth_callback by the validation block, -1 if the
\* callback is not invoked
ToothCallbackArg(d) ==
    IF d.sync_locked /\ d.tooth_count < d.total_teeth /\ d.on_tooth_callback
    THEN d.tooth_count ELSE -1

\* trigger_decoder_process_tooth: the decoder afterwards and what was called
ProcessToothResult(d, ts) ==
    LET d0     == [d EXCEPT !.tooth_event_counter = d.tooth_event_counter + 1]
        period == ts - d.prev_tooth_time
    IN  IF d.prev_tooth_time = 0
        THEN [dec |-> [d0 EXCEPT !.prev_tooth_time = ts],
              gap |-> FALSE, tooth_cb |-> -1, sync_cb |-> FALSE]
        ELSE IF period < MIN_TOOTH_PERIOD_US
        THEN [dec |-> d0, gap |-> FALSE, tooth_cb |-> -1, sync_cb |-> FALSE]
        ELSE LET d1  == [d0 EXCEPT !.current_tooth_period = period]
                 gap == IsSyncGap(d1, period)
                 d2  == IF gap THEN GapStep(d1, ts) ELSE d1
                 d3  == ValidateTooth(d2)
             IN  [dec      |-> [d3 EXCEPT !.prev_tooth_period = period,
                                          !.prev_tooth_time   = ts],
                  gap      |-> gap,
                  tooth_cb |-> ToothCallbackArg(d2),
                  sync_cb  |-> gap /\ ~d1.sync_locked /\ d1.on_sync_callback]

\* trigger_decoder_get_tooth_index
GetToothIndex(d) == IF ~d.sync_locked THEN 0 ELSE d.tooth_count

TriggerDecoderInit(teeth, missing) ==
    /\ dec' = DecoderInitState(teeth, missing)
    /\ last' = [NoObs EXCEPT !.op = "trigger_decoder_init"]
    /\ UNCHANGED schedVars

ProcessToothCall(ts) ==
    /\ dec.tooth_event_counter < MaxToothEvents
    /\ ts >= dec.prev_tooth_time            \* the capture clock is monotone
    /\ LET r == ProcessToothResult(dec, ts)
       IN  /\ dec' = r.dec
           /\ last' = [NoObs EXCEPT !.op = "process_tooth", !.gap = r.gap,
                                    !.tooth_cb = r.tooth_cb,
                                    !.sync_cb = r.sync_cb]

ProcessTooth(ts) ==
    /\ ProcessToothCall(ts)
    /\ UNCHANGED schedVars

SetSyncRatio(from_x2, to_x2) ==
    /\ dec' = [dec EXCEPT !.sync_ratio_from_x2 = from_x2,
                          !.sync_ratio_to_x2   = to_x2]
    /\ last' = [NoObs EXCEPT !.op = "set_sync_ratio"]
    /\ UNCHANGED schedVars

SetSyncPoint(tooth_index) ==
    /\ dec' = [dec EXCEPT !.sync_point_tooth = tooth_index]
    /\ last' = [NoObs EXCEPT !.op = "set_sync_point"]
    /\ UNCHANGED schedVars

TriggerDecoderReset ==
    /\ dec' = [dec EXCEPT !.sync_locked          = FALSE,
                          !.tooth_count          = 0,
                          !.prev_tooth_time      = 0,
                          !.prev_tooth_period    = 0,
                          !.current_tooth_period = 0]
    /\ last' = [NoObs EXCEPT !.op = "trigger_decoder_reset"]
    /\ UNCHANGED schedVars

SetToothCallback ==
    /\ dec' = [dec EXCEPT !.on_tooth_callback = TRUE]
    /\ last' = [NoObs EXCEPT !.op = "set_tooth_callback"]
    /\ UNCHANGED schedVars

SetSyncCallback ==
    /\ dec' = [dec EXCEPT !.on_sync_callback = TRUE]
    /\ last' = [NoObs EXCEPT !.op = "set_sync_callback"]
    /\ UNCHANGED schedVars

(***************************************************************************)
(* Hardware-timer port (hal/hardware_scheduler_k64.c)                      *)
(***************************************************************************)
MAX_SCHEDULED_EVENTS    == 16
HW_SCHEDULER_MAX_EVENTS == 8
FULL_CYCLE_ANGLE        == 720
MIN_RPM_FOR_SCHEDULING  == 100
FTM_CHANNELS            == 8       \* channels per FTM module
LATE_TOLERANCE_US       == 100     \* "more than 100us late" in the ISR
BUS_TICKS_PER_US        == 60      \* CPU_BUS_CLK_HZ / 1000000
FTM_COUNTER_MOD         == 65536   \* the FTM counter is 16 bits wide
UINT16_MOD              == 65536
US_PER_MINUTE           == 60000000
DEGREES_PER_REV         == 360

SlotIds == 0..(MAX_SCHEDULED_EVENTS - 1)
HwIds   == 0..(HW_SCHEDULER_MAX_EVENTS - 1)

\* FTM1 and FTM2, channel by channel, in the order find_free_ftm_channel scans
SchedulingChannels == {<<f, ch>> : f \in 1..2, ch \in 0..(FTM_CHANNELS - 1)}
ChannelOrder(c) == (c[1] * FTM_CHANNELS) + c[2]

MinOf(S) == CHOOSE x \in S : \A y \in S : x <= y

\* a zeroed hw_scheduled_event_t; context is the index of the scheduler slot
\* the event points to (-1 for NULL)
EmptyHwEvent ==
    [active |-> FALSE, scheduled_time_us |-> 0, callback |-> "NULL",
     context |-> -1, ftm |-> 0, channel |-> 0]

\* hw_scheduler_init: memset, initialized = true.  The static
\* ftm_channel_allocated table is not touched.
HwSchedulerInitState ==
    [events |-> [i \in HwIds |-> EmptyHwEvent],
     num_active |-> 0, events_fired |-> 0, events_missed |-> 0,
     initialized |-> TRUE]

\* A world is the state the scheduler functions read and write:
\* [sched, hw, alloc] with alloc the set of allocated <<ftm, channel>>.

\* find_free_ftm_channel: the first free channel of FTM1, then FTM2;
\* <<0, 0>> stands for "none" (FTM0 is never handed out)
FindFreeFtmChannel(alloc) ==
    LET free == SchedulingChannels \ alloc
    IN  IF free = {} THEN <<0, 0>>
        ELSE CHOOSE c \in free :
                 \A o \in free : ChannelOrder(c) <= ChannelOrder(o)

\* hw_scheduler_schedule(&hw_sched, absolute_time_us, hw_event_callback, context)
HwSchedulerSchedule(w, absolute_time_us, context) ==
    LET free == {i \in HwIds : ~w.hw.events[i].active}
    IN  IF free = {} THEN [w |-> w, id |-> -1]
        ELSE LET id == MinOf(free)
                 c  == FindFreeFtmChannel(w.alloc)
             IN  IF c = <<0, 0>> THEN [w |-> w, id |-> -1]
                 ELSE [w |-> [w EXCEPT
                           !.alloc = w.alloc \cup {c},
                           !.hw.events[id] =
                               [active |-> TRUE,
                                scheduled_time_us |-> absolute_time_us,
                                callback |-> "hw_event_callback",
                                context |-> context,
                                ftm |-> c[1], channel |-> c[2]],
                           !.hw.num_active = (w.hw.num_active + 1) % UINT8_MOD],
                       id |-> id]

\* (a variant of hw_scheduler_cancel that leaves the event armed and its
\* channel allocated)
HwSchedulerCancelKeepsArmed(w, event_id) ==
    IF event_id < 0 \/ event_id >= HW_SCHEDULER_MAX_EVENTS THEN w
    ELSE IF ~w.hw.events[event_id].active THEN w
    ELSE [w EXCEPT !.hw.num_active = (w.hw.num_active + UINT8_MOD - 1) % UINT8_MOD]

\* hw_scheduler_cancel
HwSchedulerCancel(w, event_id) ==
    IF event_id < 0 \/ event_id >= HW_SCHEDULER_MAX_EVENTS THEN w
    ELSE IF ~w.hw.events[event_id].active THEN w
    ELSE LET e == w.hw.events[event_id]
         IN  [w EXCEPT
                 !.alloc = w.alloc \ {<<e.ftm, e.channel>>},
                 !.hw.events[event_id].active = FALSE,
                 !.hw.num_active = (w.hw.num_active + UINT8_MOD - 1) % UINT8_MOD]

\* hw_scheduler_cancel_all
RECURSIVE HwCancelFrom(_, _)
HwCancelFrom(w, i) ==
    IF i >= HW_SCHEDULER_MAX_EVENTS THEN w
    ELSE HwCancelFrom(HwSchedulerCancel(w, i), i + 1)

HwSchedulerCancelAll(w) == HwCancelFrom(w, 0)

\* hw_scheduler_micros: the FTM0 counter, free-running at the bus clock over
\* its 16 bits, converted to microseconds
HwSchedulerMicros(t) ==
    ((t * BUS_TICKS_PER_US) % FTM_COUNTER_MOD) \div BUS_TICKS_PER_US

(***************************************************************************)
(* Angle scheduler (controllers/event_scheduler.c)                         *)
(***************************************************************************)
\* a zeroed scheduled_event_t.  seq is history, not program state: the value
\* of events_scheduled when the event was accepted, which names the event.
EmptySlot ==
    [trigger_angle |-> 0, cylinder |-> 0, action |-> "NULL", active |-> FALSE,
     scheduled_time_us |-> 0, angle_delta |-> 0, hw_event_id |-> 0, seq |-> 0]

\* scheduler_init: memset of the scheduler, then hw_scheduler_init
SchedulerInitState ==
    [events |-> [i \in SlotIds |-> EmptySlot],
     num_active_events |-> 0, current_angle |-> 0, rpm |-> 0,
     us_per_degree |-> 0, events_scheduled |-> 0, events_fired |-> 0,
     events_missed |-> 0]

SchedulerInitW(w) ==
    [w EXCEPT !.sched = SchedulerInitState, !.hw = HwSchedulerInitState]

\* the (target - current) angle delta of lines 120-123 / 157-160
AngleDelta(target_angle, current_angle) ==
    IF target_angle - current_angle < 0
    THEN (target_angle - current_angle) + FULL_CYCLE_ANGLE
    ELSE target_angle - current_angle

\* scheduler_angle_to_time
SchedulerAngleToTime(s, target_angle) ==
    Mul32(s.us_per_degree, AngleDelta(target_angle, s.current_angle))

\* us_per_degree as scheduler_update_angle computes it; 0xFFFFFFFF is -1
UsPerDegree(rpm) ==
    IF rpm >= MIN_RPM_FOR_SCHEDULING
    THEN US_PER_MINUTE \div (rpm * DEGREES_PER_REV)
    ELSE -1

\* scheduler_update_angle
SchedulerUpdateAngle(s, angle, rpm, current_time_us) ==
    LET s1 == [s EXCEPT !.current_angle = angle % FULL_CYCLE_ANGLE,
                        !.rpm = rpm,
                        !.us_per_degree = UsPerDegree(rpm)]
    IN  [s1 EXCEPT !.events =
            [i \in SlotIds |->
                IF s1.events[i].active
                THEN [s1.events[i] EXCEPT !.scheduled_time_us =
                         Add32(current_time_us,
                               SchedulerAngleToTime(s1, s1.events[i].trigger_angle))]
                ELSE s1.events[i]]]

\* (a variant of scheduler_add_event that forgets the cleanup of line 185)
SchedulerAddEventNoRollback(w, angle0, cylinder, action, current_time_us) ==
    IF action = "NULL"
    THEN [w |-> w, ok |-> FALSE, slot |-> -1, reason |-> "null_action"]
    ELSE
    LET angle == angle0 % FULL_CYCLE_ANGLE
        free  == {i \in SlotIds : ~w.sched.events[i].active}
    IN  IF free = {}
        THEN [w |-> w, ok |-> FALSE, slot |-> -1, reason |-> "queue_full"]
        ELSE
        LET i     == MinOf(free)
            delta == AngleDelta(angle, w.sched.current_angle)
            fire  == Add32(current_time_us, Mul32(w.sched.us_per_degree, delta))
            w1    == [w EXCEPT !.sched.events[i] =
                         [@ EXCEPT !.trigger_angle = angle,
                                   !.cylinder = cylinder,
                                   !.action = action,
                                   !.active = TRUE,
                                   !.angle_delta = delta,
                                   !.scheduled_time_us = fire,
                                   !.seq = 0]]
            r     == HwSchedulerSchedule(w1, fire, i)
        IN  IF r.id >= 0
            THEN [w |-> [r.w EXCEPT
                      !.sched.events[i].hw_event_id = r.id,
                      !.sched.events[i].seq = w.sched.events_scheduled + 1,
                      !.sched.num_active_events =
                          (w.sched.num_active_events + 1) % UINT8_MOD,
                      !.sched.events_scheduled = w.sched.events_scheduled + 1],
                  ok |-> TRUE, slot |-> i, reason |-> ""]
            ELSE [w |-> r.w, ok |-> FALSE, slot |-> i, reason |-> "hw_full"]

\* scheduler_add_event: [w, ok, slot, reason]; slot is the queue slot used
SchedulerAddEvent(w, angle0, cylinder, action, current_time_us) ==
    IF action = "NULL"
    THEN [w |-> w, ok |-> FALSE, slot |-> -1, reason |-> "null_action"]
    ELSE
    LET angle == angle0 % FULL_CYCLE_ANGLE
        free  == {i \in SlotIds : ~w.sched.events[i].active}
    IN  IF free = {}
        THEN [w |-> w, ok |-> FALSE, slot |-> -1, reason |-> "queue_full"]
        ELSE
        LET i     == MinOf(free)
            delta == AngleDelta(angle, w.sched.current_angle)
            fire  == Add32(current_time_us, Mul32(w.sched.us_per_degree, delta))
            w1    == [w EXCEPT !.sched.events[i] =
                         [@ EXCEPT !.trigger_angle = angle,
                                   !.cylinder = cylinder,
                                   !.action = action,
                                   !.active = TRUE,
                                   !.angle_delta = delta,
                                   !.scheduled_time_us = fire,
                                   !.seq = 0]]
            r     == HwSchedulerSchedule(w1, fire, i)
        IN  IF r.id >= 0
            THEN [w |-> [r.w EXCEPT
                      !.sched.events[i].hw_event_id = r.id,
                      !.sched.events[i].seq = w.sched.events_scheduled + 1,
                      !.sched.num_active_events =
                          (w.sched.num_active_events + 1) % UINT8_MOD,
                      !.sched.events_scheduled = w.sched.events_scheduled + 1],
                  ok |-> TRUE, slot |-> i, reason |-> ""]
            ELSE [w |-> [r.w EXCEPT !.sched.events[i].active = FALSE],
                  ok |-> FALSE, slot |-> i, reason |-> "hw_full"]

\* one iteration of the loop of scheduler_clear_events
ClearSlot(w, i) ==
    LET e  == w.sched.events[i]
        w1 == IF e.active /\ e.hw_event_id >= 0
              THEN HwSchedulerCancel(w, e.hw_event_id) ELSE w
    IN  [w1 EXCEPT !.sched.events[i].active = FALSE,
                   !.sched.events[i].hw_event_id = -1]

RECURSIVE ClearFrom(_, _)
ClearFrom(w, i) ==
    IF i >= MAX_SCHEDULED_EVENTS THEN w
    ELSE ClearFrom(ClearSlot(w, i), i + 1)

\* scheduler_clear_events
SchedulerClearEvents(w) ==
    [ClearFrom(w, 0) EXCEPT !.sched.num_active_events = 0]

\* one iteration of the loop of scheduler_remove_cylinder_events
RemoveSlot(w, i, cylinder) ==
    LET e == w.sched.events[i]
    IN  IF e.active /\ e.cylinder = cylinder
        THEN LET w1 == IF e.hw_event_id >= 0
                       THEN HwSchedulerCancel(w, e.hw_event_id) ELSE w
             IN  [w1 EXCEPT
                     !.sched.events[i].active = FALSE,
                     !.sched.events[i].hw_event_id = -1,
                     !.sched.num_active_events =
                         (w1.sched.num_active_events + UINT8_MOD - 1) % UINT8_MOD]
        ELSE w

RECURSIVE RemoveFrom(_, _, _)
RemoveFrom(w, i, cylinder) ==
    IF i >= MAX_SCHEDULED_EVENTS THEN w
    ELSE RemoveFrom(RemoveSlot(w, i, cylinder), i + 1, cylinder)

\* scheduler_remove_cylinder_events
SchedulerRemoveCylinderEvents(w, cylinder) == RemoveFrom(w, 0, cylinder)

\* (a variant of hw_event_callback that frees every slot of the event's
\* cylinder)
HwEventCallbackFreesCylinder(w, slot) ==
    IF slot >= 0 /\ w.sched.events[slot].action # "NULL"
    THEN [w EXCEPT !.sched.events =
             [j \in SlotIds |->
                 IF w.sched.events[j].cylinder = w.sched.events[slot].cylinder
                 THEN [w.sched.events[j] EXCEPT !.active = FALSE,
                                                !.hw_event_id = -1]
                 ELSE w.sched.events[j]]]
    ELSE w

\* hw_event_callback(context): runs the slot's action and frees the slot
HwEventCallback(w, slot) ==
    IF slot >= 0 /\ w.sched.events[slot].action # "NULL"
    THEN [w EXCEPT !.sched.events[slot].active = FALSE,
                   !.sched.events[slot].hw_event_id = -1]
    ELSE w

\* hw_scheduler_ftm_isr for the hardware event i that matches (ftm, channel)
HwSchedulerFtmIsr(w, i, t) ==
    LET e    == w.hw.events[i]
        w1   == IF e.callback # "NULL" THEN HwEventCallback(w, e.context) ELSE w
        late == LtU(Add32(e.scheduled_time_us, LATE_TOLERANCE_US),
                    HwSchedulerMicros(t))
        w2   == [w1 EXCEPT
                    !.hw.events_fired = w1.hw.events_fired + 1,
                    !.hw.events_missed =
                        IF late THEN w1.hw.events_missed + 1
                        ELSE w1.hw.events_missed]
    IN  HwSchedulerCancel(w2, i)

(***************************************************************************)
(* Multi-stage scheduler (controllers/multi_stage_scheduler.c)             *)
(***************************************************************************)
MS_MAX_EVENTS == 8

MsIds == 0..(MS_MAX_EVENTS - 1)

\* a zeroed multistage_event_t.  start_seq / end_seq are history: the names
\* (seq) of the two angle-scheduler events the schedule call created.
EmptyMsEvent ==
    [cylinder |-> 0, type |-> "MULTISTAGE_INJECTION", start_angle |-> 0,
     duration_us |-> 0, start_time_us |-> 0, end_time_us |-> 0,
     start_action |-> "NULL", end_action |-> "NULL",
     active |-> FALSE, start_fired |-> FALSE, end_fired |-> FALSE,
     start_seq |-> 0, end_seq |-> 0]

\* multistage_scheduler_init
MultistageInitState ==
    [events |-> [i \in MsIds |-> EmptyMsEvent],
     num_active |-> 0, events_started |-> 0, events_completed |-> 0,
     events_cancelled |-> 0]

\* The tail shared by schedule_injection (lines 109-143) and
\* schedule_ignition (lines 185-212): the two scheduler_add_event calls, the
\* failure paths and the statistics.  m already holds the set-up event.
ScheduleStartEnd(w, m, id, cylinder, start_angle, end_angle, start_action, end_action, current_time_us) ==
    LET a == SchedulerAddEvent(w, start_angle, cylinder, start_action,
                               current_time_us)
    IN  IF ~a.ok
        THEN [w |-> a.w, ms |-> [m EXCEPT !.events[id].active = FALSE],
              ret |-> -1, id |-> id, slots |-> {}, reason |-> "start_failed"]
        ELSE
        LET b == SchedulerAddEvent(a.w, end_angle, cylinder, end_action,
                                   current_time_us)
        IN  IF ~b.ok
            THEN [w |-> b.w, ms |-> [m EXCEPT !.events[id].active = FALSE],
                  ret |-> -1, id |-> id, slots |-> {a.slot},
                  reason |-> "end_failed"]
            ELSE [w |-> b.w,
                  ms |-> [m EXCEPT
                      !.events[id].start_seq = a.w.sched.events[a.slot].seq,
                      !.events[id].end_seq = b.w.sched.events[b.slot].seq,
                      !.num_active = (m.num_active + 1) % UINT8_MOD,
                      !.events_started = m.events_started + 1],
                  ret |-> id, id |-> id, slots |-> {a.slot, b.slot},
                  reason |-> ""]

\* multistage_schedule_injection: [w, ms, ret, slots, reason]; slots are the
\* angle-scheduler slots in which the call created an event
MultistageScheduleInjection(w, m, cylinder, start_angle, duration_us, start_action, end_action, rpm, current_time_us) ==
    LET free == {i \in MsIds : ~m.events[i].active}
    IN  IF start_action = "NULL" \/ end_action = "NULL"
        THEN [w |-> w, ms |-> m, ret |-> -1, id |-> -1, slots |-> {},
              reason |-> "null_action"]
        ELSE IF free = {}
        THEN [w |-> w, ms |-> m, ret |-> -1, id |-> -1, slots |-> {},
              reason |-> "queue_full"]
        ELSE
        LET id == MinOf(free)
            m1 == [m EXCEPT !.events[id] =
                      [@ EXCEPT !.cylinder = cylinder,
                                !.type = "MULTISTAGE_INJECTION",
                                !.start_angle = start_angle,
                                !.duration_us = duration_us,
                                !.start_action = start_action,
                                !.end_action = end_action,
                                !.active = TRUE,
                                !.start_fired = FALSE,
                                !.end_fired = FALSE,
                                !.start_seq = 0,
                                !.end_seq = 0]]
        IN  IF rpm < MIN_RPM_FOR_SCHEDULING
            THEN [w |-> w, ms |-> m1, ret |-> -1, id |-> id, slots |-> {},
                  reason |-> "rpm_too_low"]
            ELSE
            LET us_per_degree    == US_PER_MINUTE \div (rpm * DEGREES_PER_REV)
                m2 == [m1 EXCEPT
                          !.events[id].start_time_us = current_time_us,
                          !.events[id].end_time_us =
                              Add32(current_time_us, duration_us)]
                duration_degrees == (duration_us \div us_per_degree) % UINT16_MOD
                end_angle == (start_angle + duration_degrees) % FULL_CYCLE_ANGLE
            IN  ScheduleStartEnd(w, m2, id, cylinder, start_angle, end_angle,
                                 start_action, end_action, current_time_us)

\* multistage_schedule_ignition
MultistageScheduleIgnition(w, m, cylinder, dwell_angle, fire_angle, start_action, end_action, rpm, current_time_us) ==
    LET free == {i \in MsIds : ~m.events[i].active}
    IN  IF start_action = "NULL" \/ end_action = "NULL"
        THEN [w |-> w, ms |-> m, ret |-> -1, id |-> -1, slots |-> {},
              reason |-> "null_action"]
        ELSE IF free = {}
        THEN [w |-> w, ms |-> m, ret |-> -1, id |-> -1, slots |-> {},
              reason |-> "queue_full"]
        ELSE
        LET id == MinOf(free)
            m1 == [m EXCEPT !.events[id] =
                      [@ EXCEPT !.cylinder = cylinder,
                                !.type = "MULTISTAGE_IGNITION",
                                !.start_angle = dwell_angle,
                                !.start_action = start_action,
                                !.end_action = end_action,
                                !.active = TRUE,
                                !.start_fired = FALSE,
                                !.end_fired = FALSE,
                                !.start_seq = 0,
                                !.end_seq = 0]]
        IN  ScheduleStartEnd(w, m1, id, cylinder, dwell_angle, fire_angle,
                             start_action, end_action, current_time_us)

\* multistage_cancel_event: [ms, ret]
MultistageCancelEvent(m, event_id) ==
    IF event_id < 0 \/ event_id >= MS_MAX_EVENTS
    THEN [ms |-> m, ret |-> FALSE]
    ELSE IF ~m.events[event_id].active
    THEN [ms |-> m, ret |-> FALSE]
    ELSE [ms |-> [m EXCEPT
              !.events[event_id].active = FALSE,
              !.num_active = (m.num_active + UINT8_MOD - 1) % UINT8_MOD,
              !.events_cancelled = m.events_cancelled + 1],
          ret |-> TRUE]

\* multistage_cancel_cylinder
RECURSIVE MsCancelCylinderFrom(_, _, _)
MsCancelCylinderFrom(m, i, cylinder) ==
    IF i >= MS_MAX_EVENTS THEN m
    ELSE IF m.events[i].active /\ m.events[i].cylinder = cylinder
    THEN MsCancelCylinderFrom(MultistageCancelEvent(m, i).ms, i + 1, cylinder)
    ELSE MsCancelCylinderFrom(m, i + 1, cylinder)

MultistageCancelCylinder(m, cylinder) == MsCancelCylinderFrom(m, 0, cylinder)

(***************************************************************************)
(* Ignition coil control (hal/ignition_control.c)                          *)
(***************************************************************************)
MAX_COILS            == 8
DEFAULT_MAX_DWELL_US == 10000
NO_OVER_DWELL        == 255

CoilIds == 0..(MAX_COILS - 1)

\* a - b modulo 2^32
Sub32(a, b) ==
    IF b = (0 - INT32_MAX) - 1 THEN Add32(Add32(a, INT32_MAX), 1)
    ELSE Add32(a, 0 - b)

\* a zeroed ignition_control_t (pins and polarity, which only select the
\* output level, are left out)
IgnitionZeroState ==
    [num_coils         |-> 0,
     max_dwell_us      |-> 0,
     initialized       |-> FALSE,
     enabled           |-> [i \in CoilIds |-> FALSE],
     state             |-> [i \in CoilIds |-> "COIL_STATE_IDLE"],
     charge_start_time |-> [i \in CoilIds |-> 0],
     total_sparks      |-> [i \in CoilIds |-> 0],
     last_dwell_us     |-> [i \in CoilIds |-> 0]]

\* ignition_control_init
IgnitionControlInit(g, num_coils, max_dwell_us) ==
    IF num_coils > MAX_COILS THEN g
    ELSE [IgnitionZeroState EXCEPT
             !.num_coils    = num_coils,
             !.max_dwell_us = IF max_dwell_us > 0 THEN max_dwell_us
                              ELSE DEFAULT_MAX_DWELL_US,
             !.initialized  = TRUE]

\* ignition_enable
IgnitionEnable(g, cylinder, enable) ==
    IF cylinder >= g.num_coils THEN g
    ELSE [g EXCEPT
             !.enabled[cylinder] = enable,
             !.state[cylinder] =
                 IF ~enable /\ g.state[cylinder] = "COIL_STATE_CHARGING"
                 THEN "COIL_STATE_IDLE" ELSE g.state[cylinder]]

\* ignition_charge_start
IgnitionChargeStart(g, cylinder, timestamp) ==
    IF cylinder >= g.num_coils THEN g
    ELSE IF ~g.enabled[cylinder] THEN g
    ELSE IF g.state[cylinder] = "COIL_STATE_CHARGING" THEN g
    ELSE [g EXCEPT !.state[cylinder] = "COIL_STATE_CHARGING",
                   !.charge_start_time[cylinder] = timestamp]

\* ignition_fire
IgnitionFire(g, cylinder, timestamp) ==
    IF cylinder >= g.num_coils THEN g
    ELSE IF ~g.enabled[cylinder] THEN g
    ELSE IF g.charge_start_time[cylinder] # 0
    THEN [g EXCEPT
             !.state[cylinder] = "COIL_STATE_IDLE",
             !.total_sparks[cylinder] = Add32(g.total_sparks[cylinder], 1),
             !.last_dwell_us[cylinder] =
                 Sub32(timestamp, g.charge_start_time[cylinder])]
    ELSE [g EXCEPT !.state[cylinder] = "COIL_STATE_IDLE"]

\* ignition_get_current_dwell
IgnitionGetCurrentDwell(g, cylinder, current_time) ==
    IF cylinder >= g.num_coils THEN 0
    ELSE IF g.state[cylinder] # "COIL_STATE_CHARGING" THEN 0
    ELSE IF g.charge_start_time[cylinder] = 0 THEN 0
    ELSE Sub32(current_time, g.charge_start_time[cylinder])

\* the coils ignition_check_over_dwell finds over the limit, in scan order
OverDwellCoils(g, current_time) ==
    {i \in CoilIds :
        /\ i < g.num_coils
        /\ g.state[i] = "COIL_STATE_CHARGING"
        /\ LtU(g.max_dwell_us, IgnitionGetCurrentDwell(g, i, current_time))}

\* ignition_check_over_dwell: [g |-> the new state, ret |-> the coil fired
\* or 255]
IgnitionCheckOverDwell(g, current_time) ==
    LET over == OverDwellCoils(g, current_time)
    IN  IF over = {} THEN [g |-> g, ret |-> NO_OVER_DWELL]
        ELSE [g   |-> IgnitionFire(g, MinOf(over), current_time),
              ret |-> MinOf(over)]

\* ignition_emergency_shutdown
IgnitionEmergencyShutdown(g) ==
    [g EXCEPT !.state = [i \in CoilIds |->
                            IF i < g.num_coils /\ g.enabled[i]
                            THEN "COIL_STATE_IDLE" ELSE g.state[i]]]

(***************************************************************************)
(* Engine control (controllers/engine_control.c)                           *)
(*                                                                         *)
(* The code computes in float.  A finite float is carried as an integer    *)
(* count of a unit that is fixed per quantity (below); a float operation   *)
(* is the same operation on the carried values, rounded down to the unit.  *)
(* The values a float can take beyond the finite ones, +Inf, -Inf and      *)
(* NaN, are carried as such and follow the IEEE 754 rules.  The sign of a  *)
(* zero is not carried: every zero divisor below is a +0.                  *)
(*                                                                         *)
(*   voltages                      mV                                      *)
(*   map_kpa                       0.1 kPa                                 *)
(*   clt_celsius, iat_celsius      0.01 degree C                           *)
(*   afr, afr_target               0.01                                    *)
(*   ve, clt/iat_correction,                                               *)
(*   alpha, beta, gains, dt        0.01                                    *)
(*   masses (g and mg alike)       microgram                               *)
(*   fuel_cc                       1e-6 cc                                 *)
(*   pulse_us, latency_us          microsecond                             *)
(*   integral_error                1e-4                                    *)
(*   p_term, i_term                1e-6                                    *)
(*   closed_loop.correction        1e-8                                    *)
(***************************************************************************)
STOICH_AFR          == 1310
FUEL_DENSITY_G_CC   == 81
DEFAULT_FLOW_CC     == 300
DEFAULT_VE          == 80
DEFAULT_ALPHA       == 95
DEFAULT_BETA        == 50
DEFAULT_P_GAIN      == 10
DEFAULT_I_GAIN      == 1
CORRECTION_ONE      == 100000000
CORRECTION_MAX      == 120000000
CORRECTION_MIN      == 80000000
INTEGRAL_LIMIT      == 200000
MIN_PULSE_US        == 500
MAX_PULSE_US        == 20000
RUNNING_RPM         == 100
CLOSED_LOOP_CLT     == 6000
SENSOR_DT           == 1
KELVIN_OFFSET       == 27315
GAS_CONSTANT_MILLI  == 287
UINT32_ALL_ONES     == -1
MaxBatchPairs       == 4        \* pairs batch_pairs has room for (8 cylinders)
INJECTION_TOLERANCE == 5
INJECTION_LEAD      == 180

\* floor(a * b / c) without an intermediate product beyond 32 bits
MulDiv(a, b, c) ==
    IF c < 0 THEN ((0 - a) \div (0 - c)) * b + (((0 - a) % (0 - c)) * b) \div (0 - c)
    ELSE (a \div c) * b + ((a % c) * b) \div c

Fin(v) == [k |-> "fin", v |-> v]
PInf   == [k |-> "pinf", v |-> 0]
NInf   == [k |-> "ninf", v |-> 0]
NaN    == [k |-> "nan", v |-> 0]

FSign(x) ==
    CASE x.k = "pinf" -> 1
      [] x.k = "ninf" -> -1
      [] x.k = "nan"  -> 0
      [] OTHER        -> IF x.v > 0 THEN 1 ELSE IF x.v < 0 THEN -1 ELSE 0

FSigned(s) == IF s > 0 THEN PInf ELSE NInf

FNeg(x) ==
    CASE x.k = "pinf" -> NInf
      [] x.k = "ninf" -> PInf
      [] x.k = "nan"  -> NaN
      [] OTHER        -> Fin(0 - x.v)

\* a + b
FAdd(a, b) ==
    IF a.k = "nan" \/ b.k = "nan" THEN NaN
    ELSE IF a.k = "fin" /\ b.k = "fin" THEN Fin(a.v + b.v)
    ELSE IF a.k = "fin" THEN b
    ELSE IF b.k = "fin" THEN a
    ELSE IF a.k = b.k THEN a
    ELSE NaN

FSub(a, b) == FAdd(a, FNeg(b))

\* a * b, where unit is the carried value of b's 1.0
FMul(a, b, unit) ==
    IF a.k = "nan" \/ b.k = "nan" THEN NaN
    ELSE IF a.k = "fin" /\ b.k = "fin" THEN Fin(MulDiv(a.v, b.v, unit))
    ELSE IF FSign(a) = 0 \/ FSign(b) = 0 THEN NaN
    ELSE FSigned(FSign(a) * FSign(b))

\* (a / b) * scale
FDiv(a, b, scale) ==
    IF a.k = "nan" \/ b.k = "nan" THEN NaN
    ELSE IF a.k = "fin" /\ b.k = "fin"
    THEN IF b.v # 0 THEN Fin(MulDiv(a.v, scale, b.v))
         ELSE IF a.v = 0 THEN NaN
         ELSE FSigned(a.v)
    ELSE IF a.k = "fin" THEN Fin(0)
    ELSE IF b.k = "fin" THEN FSigned(FSign(a) * (IF b.v < 0 THEN -1 ELSE 1))
    ELSE NaN

\* a < b, false when either is NaN
FLt(a, b) ==
    /\ a.k # "nan"
    /\ b.k # "nan"
    /\ a.k # "pinf"
    /\ b.k # "ninf"
    /\ \/ a.k = "ninf" /\ b.k # "ninf"
       \/ b.k = "pinf" /\ a.k # "pinf"
       \/ a.k = "fin" /\ b.k = "fin" /\ a.v < b.v

\* (uint32_t)x.  The conversion of a NaN is undefined: the Cortex-M4
\* VCVT and the soft-float routine give 0, a saturating conversion all ones.
CastToUint32(x) ==
    IF x.k = "fin" THEN {x.v} ELSE {0, UINT32_ALL_ONES}

\* a zeroed ecu_state_t; the fields no modelled function reads are left out
EcuZeroState ==
    [displacement_cc    |-> 0,
     map_kpa            |-> 0,
     clt_celsius        |-> 0,
     iat_celsius        |-> 0,
     afr                |-> 0,
     battery_voltage    |-> 0,
     rpm                |-> 0,
     engine_running     |-> FALSE,
     fault_code         |-> 0,
     proportional_gain  |-> 0,
     integral_gain      |-> 0,
     integral_error     |-> 0,
     correction         |-> 0,
     closed_loop_active |-> FALSE,
     afr_target         |-> 0,
     injector_flow_cc   |-> 0,
     clt_correction     |-> 0,
     iat_correction     |-> 0,
     accel_enrichment   |-> 0,
     alpha              |-> 0,
     beta               |-> 0,
     fuel_film_mass     |-> Fin(0),
     num_cylinders      |-> 0,
     injection_mode     |-> "INJECTION_MODE_SEQUENTIAL",
     num_batch_pairs    |-> 0,
     batch_pairs        |-> [p \in 0..(MaxBatchPairs - 1) |-> <<0, 0>>]]

\* init_batch_injection_pairs
InitBatchInjectionPairs(e) ==
    LET n == e.num_cylinders \div 2
    IN  [e EXCEPT !.num_batch_pairs = n,
                  !.batch_pairs = [p \in 0..(MaxBatchPairs - 1) |->
                                      IF p < n THEN <<p, p + n>>
                                      ELSE e.batch_pairs[p]]]

\* ecu_init: the fields it does not write (the sensor readings and the
\* three corrections) keep what the object held
EcuInit(e, displacement_cc, num_cylinders) ==
    InitBatchInjectionPairs(
    [e EXCEPT !.displacement_cc    = displacement_cc,
              !.num_cylinders      = num_cylinders,
              !.injection_mode     = "INJECTION_MODE_SIMULTANEOUS",
              !.afr_target         = STOICH_AFR,
              !.injector_flow_cc   = DEFAULT_FLOW_CC,
              !.alpha              = DEFAULT_ALPHA,
              !.beta               = DEFAULT_BETA,
              !.fuel_film_mass     = Fin(0),
              !.proportional_gain  = DEFAULT_P_GAIN,
              !.integral_gain      = DEFAULT_I_GAIN,
              !.integral_error     = 0,
              !.correction         = CORRECTION_ONE,
              !.closed_loop_active = FALSE])

\* the VE table ecu_init writes
VeTable == [i \in 0..15 |-> [j \in 0..15 |-> DEFAULT_VE]]

\* the injector latency table ecu_init writes
LatencyVoltage == <<6000, 8000, 10000, 12000, 13500, 14000, 15000, 16000>>
LatencyUs      == <<1500, 1200, 1000, 800, 700, 650, 600, 550>>

Clamp(v, lo, hi) == IF v < lo THEN lo ELSE IF v > hi THEN hi ELSE v

\* abs(a - b)
Distance(a, b) == IF a >= b THEN a - b ELSE b - a

\* convert_map_voltage
ConvertMapVoltage(mv) == Clamp(MulDiv(mv - 500, 3000, 4000), 0, 3000)

\* convert_o2_voltage
ConvertO2Voltage(mv) == Clamp(2000 - mv, 1000, 2000)

\* convert_temp_voltage at the voltages of SensorVoltages: the
\* Steinhart-Hart expression evaluated in float.  At 0 V the resistance
\* is 0, its logarithm -Inf, the reciprocal 0 and the result -273.15.
ConvertTempVoltage(mv) ==
    CASE mv = 0    -> 0 - KELVIN_OFFSET
      [] mv = 1000 -> 10295
      [] mv = 2500 -> 5996
      [] mv = 3000 -> 4904

\* diagnose_sensors, as the fault code it leaves
DiagnoseSensors(f, clt, iat, battery) ==
    (IF f.tps < 100 \/ f.tps > 4900 THEN 1 ELSE 0)
    + (IF f.map < 300 \/ f.map > 4700 THEN 2 ELSE 0)
    + (IF clt < -4000 \/ clt > 15000 THEN 4 ELSE 0)
    + (IF iat < -4000 \/ iat > 15000 THEN 8 ELSE 0)
    + (IF f.o2 < 0 \/ f.o2 > 1100 THEN 16 ELSE 0)
    + (IF battery < 9000 \/ battery > 18000 THEN 32 ELSE 0)

\* a variant of update_closed_loop_fuel whose integral limit is 30 instead
\* of 20
ClosedLoopStepWideLimit(e, target_afr, actual_afr, dt) ==
    LET error    == target_afr - actual_afr
        p_term   == e.proportional_gain * error * 100
        integral == Clamp(e.integral_error + error * dt,
                          0 - (INTEGRAL_LIMIT + INTEGRAL_LIMIT \div 2),
                          INTEGRAL_LIMIT + INTEGRAL_LIMIT \div 2)
        i_term   == e.integral_gain * integral
    IN  [e EXCEPT !.integral_error = integral,
                  !.correction = Clamp(CORRECTION_ONE + (p_term + i_term),
                                       CORRECTION_MIN, CORRECTION_MAX)]

\* update_closed_loop_fuel without the early return
ClosedLoopStep(e, target_afr, actual_afr, dt) ==
    LET error    == target_afr - actual_afr
        p_term   == e.proportional_gain * error * 100
        integral == Clamp(e.integral_error + error * dt,
                          0 - INTEGRAL_LIMIT, INTEGRAL_LIMIT)
        i_term   == e.integral_gain * integral
    IN  [e EXCEPT !.integral_error = integral,
                  !.correction = Clamp(CORRECTION_ONE + (p_term + i_term),
                                       CORRECTION_MIN, CORRECTION_MAX)]

\* update_closed_loop_fuel
UpdateClosedLoopFuel(e, target_afr, actual_afr, dt) ==
    IF ~e.closed_loop_active THEN e
    ELSE ClosedLoopStep(e, target_afr, actual_afr, dt)

\* a variant of ecu_update_sensors that leaves integral_error alone when it
\* switches the closed loop off
EcuUpdateSensorsKeepsIntegral(e, f, rpm) ==
    LET clt  == ConvertTempVoltage(f.clt)
        iat  == ConvertTempVoltage(f.iat)
        read == [e EXCEPT !.map_kpa         = ConvertMapVoltage(f.map),
                          !.clt_celsius     = clt,
                          !.iat_celsius     = iat,
                          !.afr             = ConvertO2Voltage(f.o2),
                          !.battery_voltage = f.battery * 5,
                          !.rpm             = rpm,
                          !.engine_running  = (rpm > RUNNING_RPM),
                          !.fault_code      =
                              DiagnoseSensors(f, clt, iat, f.battery * 5)]
    IN  IF clt > CLOSED_LOOP_CLT /\ read.engine_running
        THEN UpdateClosedLoopFuel([read EXCEPT !.closed_loop_active = TRUE],
                                  read.afr_target, read.afr, SENSOR_DT)
        ELSE [read EXCEPT !.closed_loop_active = FALSE]

\* ecu_update_sensors, with the ADC voltages f and the RPM the input
\* capture reports
EcuUpdateSensors(e, f, rpm) ==
    LET clt  == ConvertTempVoltage(f.clt)
        iat  == ConvertTempVoltage(f.iat)
        read == [e EXCEPT !.map_kpa         = ConvertMapVoltage(f.map),
                          !.clt_celsius     = clt,
                          !.iat_celsius     = iat,
                          !.afr             = ConvertO2Voltage(f.o2),
                          !.battery_voltage = f.battery * 5,
                          !.rpm             = rpm,
                          !.engine_running  = (rpm > RUNNING_RPM),
                          !.fault_code      =
                              DiagnoseSensors(f, clt, iat, f.battery * 5)]
    IN  IF clt > CLOSED_LOOP_CLT /\ read.engine_running
        THEN UpdateClosedLoopFuel([read EXCEPT !.closed_loop_active = TRUE],
                                  read.afr_target, read.afr, SENSOR_DT)
        ELSE [read EXCEPT !.closed_loop_active = FALSE,
                          !.integral_error = 0]

\* lookup_table_2d for table values in units of 0.01; x and y are
\* normalised in thousandths of a cell
LookupTable2d(table, x, y, x_min, x_max, y_min, y_max) ==
    LET x_norm == Clamp(MulDiv(x - x_min, 15000, x_max - x_min), 0, 15000)
        y_norm == Clamp(MulDiv(y - y_min, 15000, y_max - y_min), 0, 15000)
        x_idx  == IF x_norm \div 1000 >= 15 THEN 14 ELSE x_norm \div 1000
        y_idx  == IF y_norm \div 1000 >= 15 THEN 14 ELSE y_norm \div 1000
        x_frac == x_norm - x_idx * 1000
        y_frac == y_norm - y_idx * 1000
        v00    == table[y_idx][x_idx]
        v10    == table[y_idx][x_idx + 1]
        v01    == table[y_idx + 1][x_idx]
        v11    == table[y_idx + 1][x_idx + 1]
        v0     == v00 + MulDiv(v10 - v00, x_frac, 1000)
        v1     == v01 + MulDiv(v11 - v01, x_frac, 1000)
    IN  v0 + MulDiv(v1 - v0, y_frac, 1000)

\* calculate_injector_latency
CalculateInjectorLatency(battery_voltage) ==
    LET hits == {i \in 1..7 : /\ battery_voltage >= LatencyVoltage[i]
                              /\ battery_voltage <= LatencyVoltage[i + 1]}
    IN  IF hits # {}
        THEN LET i == MinOf(hits)
             IN  LatencyUs[i]
                 + MulDiv(battery_voltage - LatencyVoltage[i],
                          LatencyUs[i + 1] - LatencyUs[i],
                          LatencyVoltage[i + 1] - LatencyVoltage[i])
        ELSE IF battery_voltage < LatencyVoltage[1] THEN LatencyUs[1]
        ELSE LatencyUs[8]

\* the X-tau step of update_wall_wetting with the coefficients it ends up
\* using: [m_cmd |-> the return value, film |-> the fuel_film_mass it leaves]
WallWettingStep(alpha, beta, film, base_fuel) ==
    LET m_cmd == IF beta < 99
                 THEN FDiv(FSub(base_fuel, FMul(film, Fin(100 - alpha), 100)),
                           Fin(100 - beta), 100)
                 ELSE base_fuel
        next  == FAdd(FMul(film, Fin(alpha), 100), FMul(m_cmd, Fin(beta), 100))
    IN  [m_cmd |-> IF FLt(m_cmd, Fin(0)) THEN Fin(0) ELSE m_cmd,
         film  |-> IF FLt(next, Fin(0)) THEN Fin(0) ELSE next]

\* (a variant of update_wall_wetting that lets no fuel reach the wall)
UpdateWallWettingNoDeposit(e, base_fuel) ==
    WallWettingStep(IF e.alpha < 1 THEN 0 ELSE e.alpha, 0,
                    e.fuel_film_mass, base_fuel)

\* update_wall_wetting: coefficients under 0.01 count as 0
UpdateWallWetting(e, base_fuel) ==
    WallWettingStep(IF e.alpha < 1 THEN 0 ELSE e.alpha,
                    IF e.beta < 1 THEN 0 ELSE e.beta,
                    e.fuel_film_mass, base_fuel)

\* pulse_us * correction, correction in units of 1e-8
ApplyCorrection(pulse, correction) ==
    IF pulse.k # "fin" THEN FMul(pulse, Fin(correction), CORRECTION_ONE)
    ELSE LET ch == correction \div 10000
             cl == correction % 10000
             ph == pulse.v \div 10000
             pl == pulse.v % 10000
         IN  Fin(ph * ch + (pl * ch + (pulse.v * cl) \div 10000) \div 10000)

\* the float pulse_us of calculate_fuel_pulse before the conversion to
\* uint32_t, and the wall film it leaves
FuelPulseFloat(e) ==
    LET ve       == LookupTable2d(VeTable, e.rpm, e.map_kpa,
                                  500, 7000, 200, 1000)
        air_mass == FDiv(Fin(e.map_kpa * e.displacement_cc * ve),
                         Fin(MulDiv(e.iat_celsius + KELVIN_OFFSET,
                                    GAS_CONSTANT_MILLI, 1000)),
                         100)
        fuel_mass == FDiv(air_mass, Fin(e.afr_target), 100)
        ww       == UpdateWallWetting(e, fuel_mass)
        fuel_cc  == FDiv(ww.m_cmd, Fin(FUEL_DENSITY_G_CC), 100)
        base     == FDiv(fuel_cc, Fin(e.injector_flow_cc), 60)
        trimmed  == FAdd(FMul(FMul(base, Fin(e.clt_correction), 100),
                              Fin(e.iat_correction), 100),
                         Fin(e.accel_enrichment))
        closed   == IF e.closed_loop_active
                    THEN ApplyCorrection(trimmed, e.correction)
                    ELSE trimmed
        pulse_us == FAdd(closed,
                         Fin(CalculateInjectorLatency(e.battery_voltage)))
        floored  == IF FLt(pulse_us, Fin(MIN_PULSE_US)) THEN Fin(MIN_PULSE_US)
                    ELSE pulse_us
    IN  [pulse |-> IF FLt(Fin(MAX_PULSE_US), floored) THEN Fin(MAX_PULSE_US)
                   ELSE floored,
         film  |-> ww.film]

\* calculate_fuel_pulse: [e |-> the state it leaves, rets |-> the values
\* it can return]
CalculateFuelPulse(e) ==
    IF ~e.engine_running THEN [e |-> e, rets |-> {0}]
    ELSE LET r == FuelPulseFloat(e)
         IN  [e    |-> [e EXCEPT !.fuel_film_mass = r.film],
              rets |-> CastToUint32(r.pulse)]

\* Injection modes.  Crank angles are carried in whole degrees, for the
\* cylinder counts engine_config_t names (4, 6, 8), whose 720 / n and
\* 360 / (n / 2) are whole.  An injector mask is carried as the set of its
\* bits.
InjectionModes ==
    {"INJECTION_MODE_SEQUENTIAL", "INJECTION_MODE_BATCH",
     "INJECTION_MODE_SIMULTANEOUS", "INJECTION_MODE_SINGLE_POINT"}

\* the while loop of calculate_injection_timing
RECURSIVE NormalizeAngle(_)
NormalizeAngle(a) == IF a < 0 THEN NormalizeAngle(a + FULL_CYCLE_ANGLE) ELSE a

\* calculate_injection_timing
CalculateInjectionTiming(e, cylinder) ==
    IF cylinder >= e.num_cylinders THEN 0
    ELSE NormalizeAngle(cylinder * (FULL_CYCLE_ANGLE \div e.num_cylinders)
                        - INJECTION_LEAD)

\* the pair calculate_injection_timing_for_mode finds for the cylinder
PairIndex(e, cylinder) ==
    LET found == {p \in 0..(e.num_batch_pairs - 1) :
                     cylinder \in {e.batch_pairs[p][1], e.batch_pairs[p][2]}}
    IN  IF found = {} THEN 0 ELSE MinOf(found)

\* calculate_injection_timing_for_mode
CalculateInjectionTimingForMode(e, crank_angle, cylinder) ==
    CASE e.injection_mode = "INJECTION_MODE_SEQUENTIAL" ->
             CalculateInjectionTiming(e, cylinder)
      [] e.injection_mode = "INJECTION_MODE_BATCH" ->
             PairIndex(e, cylinder) * (DEGREES_PER_REV \div e.num_batch_pairs)
      [] OTHER -> 0

\* the window test of get_injectors_to_fire: 0 <= diff < tolerance
InWindow(diff) == diff >= 0 /\ diff < INJECTION_TOLERANCE

\* the sequential case of get_injectors_to_fire for one cylinder
SequentialFires(e, crank_angle, cyl) ==
    LET d0 == crank_angle - CalculateInjectionTiming(e, cyl)
        d1 == IF d0 > DEGREES_PER_REV THEN d0 - FULL_CYCLE_ANGLE ELSE d0
        d2 == IF d1 < -DEGREES_PER_REV THEN d1 + FULL_CYCLE_ANGLE ELSE d1
    IN  InWindow(d2)

\* (a variant of the batch case that fires a pair once per cycle only)
PairFiresOnce(e, crank_angle, pair) ==
    InWindow(crank_angle - pair * (DEGREES_PER_REV \div e.num_batch_pairs))

\* the batch case of get_injectors_to_fire for one pair
PairFires(e, crank_angle, pair) ==
    LET pair_timing_1 == pair * (DEGREES_PER_REV \div e.num_batch_pairs)
        pair_timing_2 == pair_timing_1 + DEGREES_PER_REV
    IN  InWindow(crank_angle - pair_timing_1)
        \/ InWindow(crank_angle - pair_timing_2)

\* the bits of the uint8_t mask 1 << c for the cylinders given
MaskBits(cylinders) == {c \in cylinders : c < 8}

\* get_injectors_to_fire
GetInjectorsToFire(e, crank_angle) ==
    CASE e.injection_mode = "INJECTION_MODE_SEQUENTIAL" ->
             MaskBits({cyl \in 0..(e.num_cylinders - 1) :
                          SequentialFires(e, crank_angle, cyl)})
      [] e.injection_mode = "INJECTION_MODE_BATCH" ->
             MaskBits(UNION {{e.batch_pairs[pair][1], e.batch_pairs[pair][2]} :
                                pair \in {q \in 0..(e.num_batch_pairs - 1) :
                                              PairFires(e, crank_angle, q)}})
      [] e.injection_mode = "INJECTION_MODE_SIMULTANEOUS" ->
             IF crank_angle < INJECTION_TOLERANCE
             THEN MaskBits(0..(e.num_cylinders - 1)) ELSE {}
      [] e.injection_mode = "INJECTION_MODE_SINGLE_POINT" ->
             IF crank_angle < INJECTION_TOLERANCE THEN {0} ELSE {}
      [] OTHER -> {}

(***************************************************************************)
(* RPM calculator (controllers/rpm_calculator.c)                           *)
(*                                                                         *)
(* filter_coefficient is carried in hundredths; the filtered value is      *)
(* rounded down as the conversion to uint16_t does.                        *)
(***************************************************************************)
DEFAULT_FILTER_COEFFICIENT == 5
ACCEL_THRESHOLD_RPM_PER_SEC == 50
MIN_ACCEL_INTERVAL_US       == 100000
US_PER_SECOND               == 1000000
US_PER_SECOND_DIGITS        == 6         \* 1000000 = 10^6
MAX_EXACT_RPM_DELTA         == 2147      \* 2147 * 1000000 <= INT32_MAX < 2148 * 1000000
DEFAULT_TIMEOUT_US         == 1000000
MIN_RPM_PERIOD_US          == 1000
RPM_US_PER_MINUTE          == 60000000
UINT16_MAX                 == 65535

\* a zeroed rpm_calculator_t
RpmZeroState ==
    [rpm                  |-> 0,
     instant_rpm          |-> 0,
     last_revolution_time |-> 0,
     revolution_period    |-> 0,
     revolution_counter   |-> 0,
     filter_coefficient   |-> 0,
     timeout_threshold_us |-> 0,
     last_update_time     |-> 0,
     stopped              |-> FALSE,
     initialized          |-> FALSE,
     cranking             |-> FALSE,
     cranking_rpm_threshold |-> 0,
     cranking_filter_coeff  |-> 0,
     rpm_acceleration     |-> 0,
     prev_rpm             |-> 0,
     prev_rpm_time        |-> 0,
     accelerating         |-> FALSE,
     decelerating         |-> FALSE]

\* rpm_calculator_init
RpmCalculatorInit ==
    [RpmZeroState EXCEPT !.filter_coefficient   = DEFAULT_FILTER_COEFFICIENT,
                         !.timeout_threshold_us = DEFAULT_TIMEOUT_US,
                         !.stopped              = TRUE,
                         !.initialized          = TRUE]

\* the exponential filter and state update shared by on_tooth and
\* on_revolution
RpmApplyReading(c, instant, current_time) ==
    [c EXCEPT !.instant_rpm = instant,
              !.rpm = IF c.rpm = 0 THEN instant
                      ELSE (instant * c.filter_coefficient
                            + c.rpm * (100 - c.filter_coefficient)) \div 100,
              !.last_update_time = current_time,
              !.stopped = FALSE]

\* rpm_calculator_on_tooth
RpmCalculatorOnTooth(c, period_us, teeth_per_rev, current_time) ==
    IF period_us < MIN_RPM_PERIOD_US \/ teeth_per_rev = 0 THEN c
    ELSE LET calc == RPM_US_PER_MINUTE \div (period_us * teeth_per_rev)
         IN  RpmApplyReading(c, IF calc > UINT16_MAX THEN UINT16_MAX ELSE calc,
                             current_time)

\* rpm_calculator_on_revolution
RpmCalculatorOnRevolution(c, revolution_period_us, current_time) ==
    IF revolution_period_us < MIN_RPM_PERIOD_US THEN c
    ELSE LET calc == RPM_US_PER_MINUTE \div revolution_period_us
             counted == [c EXCEPT
                            !.revolution_period = revolution_period_us,
                            !.last_revolution_time = current_time,
                            !.revolution_counter =
                                Add32(c.revolution_counter, 1)]
         IN  RpmApplyReading(counted,
                             IF calc > UINT16_MAX THEN UINT16_MAX ELSE calc,
                             current_time)

\* rpm_calculator_get_rpm
RpmCalculatorGetRpm(c) == IF c.stopped THEN 0 ELSE c.rpm

\* rpm_calculator_get_instant_rpm
RpmCalculatorGetInstantRpm(c) == IF c.stopped THEN 0 ELSE c.instant_rpm

\* rpm_calculator_is_running
RpmCalculatorIsRunning(c, current_time) ==
    IF ~c.initialized THEN FALSE
    ELSE IF c.last_update_time = 0 THEN FALSE
    ELSE IF LtU(c.timeout_threshold_us, Sub32(current_time, c.last_update_time))
    THEN FALSE
    ELSE ~c.stopped /\ c.rpm > 0

\* rpm_calculator_set_filter_coefficient
RpmCalculatorSetFilterCoefficient(c, coefficient) ==
    [c EXCEPT !.filter_coefficient = Clamp(coefficient, 0, 100)]

\* rpm_calculator_set_timeout
RpmCalculatorSetTimeout(c, timeout_us) ==
    [c EXCEPT !.timeout_threshold_us = timeout_us]

\* rpm_calculator_reset
RpmCalculatorReset(c) ==
    [RpmZeroState EXCEPT !.filter_coefficient   = c.filter_coefficient,
                         !.timeout_threshold_us = c.timeout_threshold_us,
                         !.initialized          = c.initialized,
                         !.stopped              = TRUE]

\* the quotient of two int32_t as C takes it, rounded toward zero (b > 0)
TruncDiv(a, b) == IF a >= 0 THEN a \div b ELSE 0 - ((0 - a) \div b)

\* |d| * 10^k / t rounded down, by long division: q and r are quotient and
\* remainder of |d| * 10^j / t for the j digits taken so far
RECURSIVE ScaledQuotient(_, _, _, _)
ScaledQuotient(q, r, t, k) ==
    IF k = 0 THEN q
    ELSE ScaledQuotient(q * 10 + (r * 10) \div t, (r * 10) % t, t, k - 1)

\* rpm_delta * 1000000 / time_delta_us in exact arithmetic, rounded toward
\* zero
ExactRpmPerSecond(rpm_delta, time_delta_us) ==
    LET d == IF rpm_delta < 0 THEN 0 - rpm_delta ELSE rpm_delta
        q == ScaledQuotient(d \div time_delta_us, d % time_delta_us,
                            time_delta_us, US_PER_SECOND_DIGITS)
    IN  IF rpm_delta < 0 THEN 0 - q ELSE q

\* The values (rpm_delta * 1000000L) / (int32_t)time_delta_us can take
\* (line 48).  The product is a long: where long has 32 bits, as on the
\* Cortex-M4 the firmware is built for, a product beyond the int32_t range
\* is a signed overflow, which the multiply instruction wraps; where long
\* has 64 bits the product is exact.
RpmPerSecondOutcomes(rpm_delta, time_delta_us) ==
    IF rpm_delta >= 0 - MAX_EXACT_RPM_DELTA /\ rpm_delta <= MAX_EXACT_RPM_DELTA
    THEN {TruncDiv(rpm_delta * US_PER_SECOND, time_delta_us)}
    ELSE {TruncDiv(Mul32(rpm_delta, US_PER_SECOND), time_delta_us),
          ExactRpmPerSecond(rpm_delta, time_delta_us)}

\* the samples rpm_calculator_update_acceleration works on are far enough
\* apart: the call is not the first and not within 100 ms of the last sample
AccelerationSampleDue(c, current_time) ==
    /\ c.initialized
    /\ c.prev_rpm_time # 0
    /\ ~LtU(Sub32(current_time, c.prev_rpm_time), MIN_ACCEL_INTERVAL_US)

\* rpm_calculator_update_acceleration, with the quotient of line 48 passed
\* in (one of RpmPerSecondOutcomes)
RpmCalculatorUpdateAcceleration(c, current_time, rpm_per_sec) ==
    IF ~c.initialized THEN c
    ELSE IF c.prev_rpm_time = 0
    THEN [c EXCEPT !.prev_rpm = c.rpm, !.prev_rpm_time = current_time]
    ELSE IF LtU(Sub32(current_time, c.prev_rpm_time), MIN_ACCEL_INTERVAL_US)
    THEN c
    ELSE [c EXCEPT
             !.rpm_acceleration = rpm_per_sec,
             !.accelerating = (rpm_per_sec > ACCEL_THRESHOLD_RPM_PER_SEC),
             !.decelerating = (rpm_per_sec < 0 - ACCEL_THRESHOLD_RPM_PER_SEC),
             !.prev_rpm = c.rpm,
             !.prev_rpm_time = current_time]

\* rpm_calculator_update_cranking_mode
RpmCalculatorUpdateCrankingMode(c) ==
    [c EXCEPT !.cranking = (c.rpm < c.cranking_rpm_threshold)]

\* rpm_calculator_get_active_filter_coeff
RpmCalculatorGetActiveFilterCoeff(c) ==
    IF c.cranking THEN c.cranking_filter_coeff ELSE c.filter_coefficient

\* rpm_calculator_is_cranking
RpmCalculatorIsCranking(c) == c.cranking

\* rpm_calculator_set_cranking_threshold
RpmCalculatorSetCrankingThreshold(c, threshold_rpm) ==
    [c EXCEPT !.cranking_rpm_threshold = threshold_rpm]

\* rpm_calculator_set_cranking_filter
RpmCalculatorSetCrankingFilter(c, coefficient) ==
    [c EXCEPT !.cranking_filter_coeff = Clamp(coefficient, 0, 100)]

\* rpm_calculator_check_timeout
RpmCalculatorCheckTimeout(c, current_time) ==
    IF /\ c.last_update_time # 0
       /\ LtU(c.timeout_threshold_us, Sub32(current_time, c.last_update_time))
    THEN [c EXCEPT !.rpm = 0, !.instant_rpm = 0, !.stopped = TRUE]
    ELSE c

(***************************************************************************)
(* Camshaft synchronisation (hal/cam_sync_k64.c)                           *)
(*                                                                         *)
(* g_sync_callback is a static of the file, not a member of                *)
(* cam_sync_state_t: it is carried next to the members and survives        *)
(* cam_sync_init.  The time stamps of the structure are left out.          *)
(***************************************************************************)
CamZeroState ==
    [cam_signal |-> FALSE, prev_cam_signal |-> FALSE,
     cycle_phase |-> "CYCLE_PHASE_UNKNOWN", cycle_synced |-> FALSE,
     sync_count |-> 0, sync_loss_count |-> 0, cam_events_total |-> 0,
     crank_tooth_at_cam |-> 0, waiting_for_cam |-> FALSE,
     g_sync_callback |-> "NULL"]

\* cam_sync_init
CamSyncInit(c) ==
    [CamZeroState EXCEPT !.waiting_for_cam = TRUE,
                         !.g_sync_callback = c.g_sync_callback]

\* the phase toggle of cam_sync_process_event
OtherPhase(phase) ==
    IF phase = "CYCLE_PHASE_FIRST_360" THEN "CYCLE_PHASE_SECOND_360"
    ELSE "CYCLE_PHASE_FIRST_360"

\* what cam_sync_process_event does with a sample, cam_event telling whether
\* the sample counts as a cam event: [c, callbacks], callbacks being the
\* phases the sync callback was invoked with, in order
CamSyncOnSample(c, cam_event, cam_signal, crank_tooth) ==
    LET edge_detected == cam_signal # c.prev_cam_signal
        c1 == IF edge_detected
              THEN [c EXCEPT !.cam_events_total = @ + 1]
              ELSE c
        c2 == IF ~cam_event THEN c1
              ELSE IF ~c1.cycle_synced
              THEN IF c1.waiting_for_cam
                   THEN [c1 EXCEPT !.crank_tooth_at_cam = crank_tooth,
                                   !.waiting_for_cam = FALSE,
                                   !.cycle_phase = "CYCLE_PHASE_FIRST_360"]
                   ELSE [c1 EXCEPT !.cycle_phase = OtherPhase(c1.cycle_phase),
                                   !.cycle_synced = TRUE,
                                   !.sync_count = @ + 1]
              ELSE [c1 EXCEPT !.cycle_phase = OtherPhase(c1.cycle_phase)]
        called == /\ cam_event
                  /\ ~c.cycle_synced /\ ~c.waiting_for_cam
                  /\ c.g_sync_callback # "NULL"
    IN  [c |-> [c2 EXCEPT !.prev_cam_signal = cam_signal,
                          !.cam_signal = cam_signal],
         callbacks |-> IF called THEN <<c2.cycle_phase>> ELSE <<>>]

\* (a variant of cam_sync_process_event that takes every edge, falling ones
\* too, for a cam event)
CamSyncProcessEventAnyEdge(c, cam_signal, crank_tooth) ==
    CamSyncOnSample(c, cam_signal # c.prev_cam_signal, cam_signal, crank_tooth)

\* cam_sync_process_event: the rising edges are the cam events
CamSyncProcessEvent(c, cam_signal, crank_tooth) ==
    CamSyncOnSample(c, cam_signal # c.prev_cam_signal /\ cam_signal,
                    cam_signal, crank_tooth)

\* cam_sync_is_synced
CamSyncIsSynced(c) == c.cycle_synced

\* cam_sync_get_phase
CamSyncGetPhase(c) ==
    IF ~c.cycle_synced THEN "CYCLE_PHASE_UNKNOWN" ELSE c.cycle_phase

\* cam_sync_reset
CamSyncReset(c) ==
    [c EXCEPT !.cycle_phase = "CYCLE_PHASE_UNKNOWN",
              !.cycle_synced = FALSE,
              !.waiting_for_cam = TRUE,
              !.cam_signal = FALSE,
              !.prev_cam_signal = FALSE]

\* cam_sync_set_callback
CamSyncSetCallback(c, callback) == [c EXCEPT !.g_sync_callback = callback]

(***************************************************************************)
(* Engine controller state machine (controllers/engine_controller.c)       *)
(*                                                                         *)
(* engine_load_percent is carried in thousandths of a percent.  Of the     *)
(* configuration and the sensor readings, the members the state machine    *)
(* and the load calculation read are kept.                                 *)
(***************************************************************************)
INT16_MOD             == 65536
INT16_MIN_UNSIGNED    == 32768
WARMUP_ENTRY_CELSIUS  == 60
WARMUP_EXIT_CELSIUS   == 80
IDLE_RPM_WINDOW       == 200
IDLE_TPS_PERCENT      == 5
DECEL_RPM_MARGIN      == 500
BARO_MILLI_KPA        == 101325
MAX_LOAD_MILLIPERCENT == 200000
LOAD_SCALE            == 100000000

EngineStates ==
    {"ENGINE_STATE_STOPPED", "ENGINE_STATE_CRANKING", "ENGINE_STATE_RUNNING",
     "ENGINE_STATE_WARMUP", "ENGINE_STATE_IDLE", "ENGINE_STATE_DECEL_FUEL_CUT",
     "ENGINE_STATE_LIMP_MODE"}

\* the conversion of an int to int16_t, which keeps the low 16 bits
ToInt16(x) ==
    LET m == x % INT16_MOD
    IN  IF m >= INT16_MIN_UNSIGNED THEN m - INT16_MOD ELSE m

\* a zeroed engine_controller_t
EngZeroState ==
    [initialized |-> FALSE, state |-> "ENGINE_STATE_STOPPED",
     state_entry_time |-> 0, last_update_time_us |-> 0, update_period_us |-> 0,
     rpm |-> 0, current_cycle_angle |-> 0, engine_load_percent |-> 0,
     config |-> [cranking_rpm |-> 0, idle_rpm_target |-> 0,
                 load_method |-> "LOAD_METHOD_SPEED_DENSITY"],
     sensors |-> [map_kpa |-> 0, map_valid |-> FALSE,
                  tps_percent |-> 0, tps_valid |-> FALSE,
                  clt_celsius |-> 0, clt_valid |-> FALSE]]

\* engine_controller_init
EngineControllerInit(config) ==
    [EngZeroState EXCEPT !.config = config, !.initialized = TRUE]

\* the state engine_controller_update_state chooses after previous_state
EngineNextState(c, previous_state, rpm) ==
    LET rpm_diff == ToInt16(Distance(ToInt16(rpm),
                                     ToInt16(c.config.idle_rpm_target)))
    IN  IF rpm = 0 THEN "ENGINE_STATE_STOPPED"
        ELSE IF rpm < c.config.cranking_rpm THEN "ENGINE_STATE_CRANKING"
        ELSE IF previous_state \in {"ENGINE_STATE_CRANKING",
                                    "ENGINE_STATE_STOPPED"}
        THEN IF /\ c.sensors.clt_valid
                /\ c.sensors.clt_celsius < WARMUP_ENTRY_CELSIUS
             THEN "ENGINE_STATE_WARMUP"
             ELSE "ENGINE_STATE_RUNNING"
        ELSE IF previous_state = "ENGINE_STATE_WARMUP"
        THEN IF /\ c.sensors.clt_valid
                /\ c.sensors.clt_celsius >= WARMUP_EXIT_CELSIUS
             THEN "ENGINE_STATE_RUNNING"
             ELSE "ENGINE_STATE_WARMUP"
        ELSE IF /\ rpm_diff < IDLE_RPM_WINDOW
                /\ c.sensors.tps_percent < IDLE_TPS_PERCENT
        THEN "ENGINE_STATE_IDLE"
        ELSE IF /\ c.sensors.tps_percent = 0
                /\ rpm > c.config.idle_rpm_target + DECEL_RPM_MARGIN
        THEN "ENGINE_STATE_DECEL_FUEL_CUT"
        ELSE "ENGINE_STATE_RUNNING"

\* the end of engine_controller_update_state: a changed state is stored and
\* stamped
EngineEnterState(c, new_state) ==
    IF new_state # c.state
    THEN [c EXCEPT !.state = new_state,
                   !.state_entry_time = c.last_update_time_us]
    ELSE c

\* (a variant of engine_controller_update_state that classifies a warming
\* engine as it does a running one)
EngineControllerUpdateStateNoWarmupHold(c, rpm) ==
    EngineEnterState(c, EngineNextState(c,
        IF c.state = "ENGINE_STATE_WARMUP" THEN "ENGINE_STATE_RUNNING"
        ELSE c.state, rpm))

\* engine_controller_update_state
EngineControllerUpdateState(c, rpm) ==
    EngineEnterState(c, EngineNextState(c, c.state, rpm))

\* engine_controller_calculate_load
EngineControllerCalculateLoad(c) ==
    CASE c.config.load_method = "LOAD_METHOD_SPEED_DENSITY" ->
             IF ~c.sensors.map_valid THEN 0
             ELSE IF c.sensors.map_kpa * 1000 >= 2 * BARO_MILLI_KPA + 1000
                  THEN MAX_LOAD_MILLIPERCENT
                  ELSE Clamp(MulDiv(LOAD_SCALE, c.sensors.map_kpa,
                                    BARO_MILLI_KPA),
                             0, MAX_LOAD_MILLIPERCENT)
      [] c.config.load_method = "LOAD_METHOD_ALPHA_N" ->
             IF c.sensors.tps_valid THEN c.sensors.tps_percent * 1000 ELSE 0
      [] OTHER -> 0

\* engine_controller_update
EngineControllerUpdate(c, rpm, cycle_angle, timestamp_us) ==
    IF ~c.initialized THEN c
    ELSE
    LET c1 == [c EXCEPT
                  !.update_period_us =
                      IF c.last_update_time_us # 0
                      THEN Sub32(timestamp_us, c.last_update_time_us) ELSE @,
                  !.last_update_time_us = timestamp_us,
                  !.rpm = rpm,
                  !.current_cycle_angle = cycle_angle]
        c2 == EngineControllerUpdateState(c1, rpm)
    IN  [c2 EXCEPT !.engine_load_percent = EngineControllerCalculateLoad(c2)]

\* engine_controller_emergency_shutdown
EngineControllerEmergencyShutdown(c) ==
    [c EXCEPT !.state = "ENGINE_STATE_STOPPED"]

\* sensor_integration_update_tps, seen from the controller: a failed read or
\* conversion clears the validity flag, a good one stores the percentage
SensorIntegrationUpdateTps(c, valid, tps_percent) ==
    IF valid
    THEN [c EXCEPT !.sensors.tps_percent = tps_percent,
                   !.sensors.tps_valid = TRUE]
    ELSE [c EXCEPT !.sensors.tps_valid = FALSE]

\* sensor_integration_update_clt, seen from the controller
SensorIntegrationUpdateClt(c, valid, clt_celsius) ==
    IF valid
    THEN [c EXCEPT !.sensors.clt_celsius = clt_celsius,
                   !.sensors.clt_valid = TRUE]
    ELSE [c EXCEPT !.sensors.clt_valid = FALSE]

(***************************************************************************)
(* Injector outputs (hal/injector_control.c)                               *)
(*                                                                         *)
(* level[c] is the level last written to the output pin of injector c;     *)
(* every injector has a pin of its own.                                    *)
(***************************************************************************)
MAX_INJECTORS == 8

InjectorIds == 0..(MAX_INJECTORS - 1)

\* the level digitalWrite gets to switch an injector off
OffLevel(invert_polarity) == IF invert_polarity THEN "HIGH" ELSE "LOW"

\* the level digitalWrite gets to switch an injector on
OnLevel(invert_polarity) == IF invert_polarity THEN "LOW" ELSE "HIGH"

ZeroInjectorStats ==
    [total_pulses |-> 0, total_duration_us |-> 0, last_duration_us |-> 0,
     last_start_time |-> 0]

\* a zeroed injector_control_t, the pins low
InjectorZeroState ==
    [num_injectors |-> 0, initialized |-> FALSE,
     config |-> [c \in InjectorIds |->
                    [enabled |-> FALSE, invert_polarity |-> FALSE]],
     state |-> [c \in InjectorIds |-> "INJECTOR_STATE_IDLE"],
     start_time |-> [c \in InjectorIds |-> 0],
     stats |-> [c \in InjectorIds |-> ZeroInjectorStats],
     level |-> [c \in InjectorIds |-> "LOW"]]

\* injector_control_init: the structure is zeroed, the pins are not written
InjectorControlInit(j, num_injectors) ==
    IF num_injectors > MAX_INJECTORS THEN j
    ELSE [InjectorZeroState EXCEPT !.num_injectors = num_injectors,
                                   !.initialized = TRUE,
                                   !.level = j.level]

\* injector_configure
InjectorConfigure(j, cylinder, invert_polarity) ==
    IF cylinder >= j.num_injectors THEN j
    ELSE [j EXCEPT !.config[cylinder].invert_polarity = invert_polarity,
                   !.level[cylinder] = OffLevel(invert_polarity)]

\* injector_on
InjectorOn(j, cylinder, timestamp) ==
    IF cylinder >= j.num_injectors THEN j
    ELSE IF ~j.config[cylinder].enabled THEN j
    ELSE [j EXCEPT
             !.level[cylinder] = OnLevel(j.config[cylinder].invert_polarity),
             !.state[cylinder] = "INJECTOR_STATE_ACTIVE",
             !.start_time[cylinder] = timestamp]

\* injector_off
InjectorOff(j, cylinder, timestamp) ==
    IF cylinder >= j.num_injectors THEN j
    ELSE IF ~j.config[cylinder].enabled THEN j
    ELSE
    LET duration == Sub32(timestamp, j.start_time[cylinder])
        j1 == [j EXCEPT
                  !.level[cylinder] =
                      OffLevel(j.config[cylinder].invert_polarity),
                  !.state[cylinder] = "INJECTOR_STATE_IDLE"]
    IN  IF j.start_time[cylinder] # 0
        THEN [j1 EXCEPT !.stats[cylinder] =
                 [total_pulses |-> Add32(@.total_pulses, 1),
                  total_duration_us |-> Add32(@.total_duration_us, duration),
                  last_duration_us |-> duration,
                  last_start_time |-> j.start_time[cylinder]]]
        ELSE j1

\* injector_enable
InjectorEnable(j, cylinder, enable) ==
    IF cylinder >= j.num_injectors THEN j
    ELSE LET j1 == [j EXCEPT !.config[cylinder].enabled = enable]
         IN  IF ~enable /\ j1.state[cylinder] = "INJECTOR_STATE_ACTIVE"
             THEN InjectorOff(j1, cylinder, 0)
             ELSE j1

\* one iteration of the loop of injector_emergency_shutdown
ShutdownInjector(j, i) ==
    IF j.config[i].enabled
    THEN [j EXCEPT !.level[i] = OffLevel(j.config[i].invert_polarity),
                   !.state[i] = "INJECTOR_STATE_IDLE"]
    ELSE j

RECURSIVE ShutdownInjectorsFrom(_, _)
ShutdownInjectorsFrom(j, i) ==
    IF i >= j.num_injectors THEN j
    ELSE ShutdownInjectorsFrom(ShutdownInjector(j, i), i + 1)

\* injector_emergency_shutdown
InjectorEmergencyShutdown(j) == ShutdownInjectorsFrom(j, 0)

(***************************************************************************)
(* The system: main-loop calls, the timer interrupt, the clock              *)
(***************************************************************************)
MaxCalls     == 3        \* main-loop API calls per behaviour
MaxTime      == 40000    \* the clock stops advancing beyond this
PrefillCount == 7        \* events pending in the loaded initial state
MaxSysCalls  == 1        \* main-loop API calls when the decoder runs too

Cylinders      == {0, 1}
UpdateAngles   == {0, 100}
RpmChoices     == {6000, 50}
EventAngles    == {90, 830}          \* 830 normalises to 110
EventActions   == {"act", "NULL"}
InjectionStart == {90}
InjectionUs    == {540}              \* 20 degrees at 6000 rpm
IgnitionAngles == {<<90, 110>>, <<30, 15>>}   \* (dwell, fire)
CancelIds      == {-1, 0, 1, 8}

\* fired / cancelled: the scheduler events (seq) whose action has run / that
\* clear_events or remove_cylinder_events cancelled; ms_cancelled: the events
\* that belonged to a cancelled multi-stage event and had not run yet
NoHistory == [fired |-> {}, cancelled |-> {}, ms_cancelled |-> {}]

\* the main loop between two scheduler calls; inside a call, pc names the
\* statement it executes next and the other members are the call's
\* arguments and locals
MainIdle ==
    [pc |-> "idle", i |-> 0, angle |-> 0, cylinder |-> 0, action |-> "NULL",
     current_time_us |-> 0, fire_time_us |-> 0, hw_id |-> -1]

World == [sched |-> sched, hw |-> hw, alloc |-> ftm_channel_allocated]

FreshWorld ==
    [sched |-> SchedulerInitState, hw |-> HwSchedulerInitState, alloc |-> {}]

\* w after scheduler_update_angle(0, 6000, 0)
Running(w) == [w EXCEPT !.sched = SchedulerUpdateAngle(w.sched, 0, 6000, 0)]

\* w after n scheduler_add_event(90, cylinder, act, 0) calls, the cylinders
\* alternating (fewer than n events are pending before the n-th call; the
\* test evaluates the prefix once, before the call is unfolded)
RECURSIVE Fill(_, _)
Fill(w, n) ==
    IF n = 0 THEN w
    ELSE LET before == Fill(w, n - 1)
         IN  IF before.sched.num_active_events < n
             THEN SchedulerAddEvent(before, 90, n % 2, "act", 0).w
             ELSE before

\* The state after scheduler_init, update_angle and PrefillCount accepted
\* add_event calls
LoadedWorld == Fill(Running(FreshWorld), PrefillCount)

\* The state after scheduler_init was called twice with every hardware event
\* in use: each time the events' FTM channels stay allocated, and so both
\* FTMs are exhausted
ExhaustedWorld ==
    SchedulerInitW(Fill(Running(SchedulerInitW(
        Fill(Running(FreshWorld), HW_SCHEDULER_MAX_EVENTS))),
        HW_SCHEDULER_MAX_EVENTS))

InitialWorlds == {FreshWorld, LoadedWorld, ExhaustedWorld}

\* an armed hardware event whose time has come
Due(e, t) == e.active /\ LeU(e.scheduled_time_us, t)

DueEvents == {i \in HwIds : Due(hw.events[i], now)}

\* Interrupts are never masked: a due timer interrupt is serviced before the
\* main loop runs on and before time passes.
MainLoopRuns == DueEvents = {} /\ calls < MaxCalls

SetWorld(w) ==
    /\ sched' = w.sched
    /\ hw' = w.hw
    /\ ftm_channel_allocated' = w.alloc

ActiveSeqs(s) == {s.events[i].seq : i \in {j \in SlotIds : s.events[j].active}}

SchedulerInit ==
    /\ MainLoopRuns
    /\ SetWorld(SchedulerInitW(World))
    /\ calls' = calls + 1
    /\ hist' = NoHistory
    /\ last' = [NoObs EXCEPT !.op = "scheduler_init"]
    /\ UNCHANGED <<ctlVars, main, dec, ms, now>>

UpdateAngle(angle, rpm) ==
    /\ MainLoopRuns
    /\ sched' = SchedulerUpdateAngle(sched, angle, rpm, now)
    /\ calls' = calls + 1
    /\ last' = [NoObs EXCEPT !.op = "scheduler_update_angle"]
    /\ UNCHANGED <<ctlVars, main, dec, hw, ftm_channel_allocated, ms, now, hist>>

AddEvent(angle, cylinder, action) ==
    /\ MainLoopRuns
    /\ LET r == SchedulerAddEvent(World, angle, cylinder, action, now)
       IN  /\ SetWorld(r.w)
           /\ last' = [NoObs EXCEPT !.op = "scheduler_add_event",
                                    !.ret = IF r.ok THEN 1 ELSE 0,
                                    !.reason = r.reason,
                                    !.arg = cylinder,
                                    !.slots = IF r.ok THEN {r.slot} ELSE {}]
    /\ calls' = calls + 1
    /\ UNCHANGED <<ctlVars, main, dec, ms, now, hist>>

ClearEvents ==
    /\ MainLoopRuns
    /\ SetWorld(SchedulerClearEvents(World))
    /\ hist' = [hist EXCEPT !.cancelled = @ \cup ActiveSeqs(sched)]
    /\ calls' = calls + 1
    /\ last' = [NoObs EXCEPT !.op = "scheduler_clear_events"]
    /\ UNCHANGED <<ctlVars, main, dec, ms, now>>

RemoveCylinderEvents(cylinder) ==
    /\ MainLoopRuns
    /\ LET w == SchedulerRemoveCylinderEvents(World, cylinder)
       IN  /\ SetWorld(w)
           /\ hist' = [hist EXCEPT !.cancelled =
                          @ \cup (ActiveSeqs(sched) \ ActiveSeqs(w.sched))]
    /\ calls' = calls + 1
    /\ last' = [NoObs EXCEPT !.op = "scheduler_remove_cylinder_events",
                             !.arg = cylinder]
    /\ UNCHANGED <<ctlVars, main, dec, ms, now>>

ScheduleInjection(cylinder, start_angle, duration_us, rpm) ==
    /\ MainLoopRuns
    /\ LET r == MultistageScheduleInjection(World, ms, cylinder, start_angle,
                    duration_us, "inj_open", "inj_close", rpm, now)
       IN  /\ SetWorld(r.w)
           /\ ms' = r.ms
           /\ last' = [NoObs EXCEPT !.op = "multistage_schedule_injection",
                                    !.ret = r.ret, !.reason = r.reason,
                                    !.arg = cylinder, !.id = r.id,
                                    !.slots = r.slots]
    /\ calls' = calls + 1
    /\ UNCHANGED <<ctlVars, main, dec, now, hist>>

ScheduleIgnition(cylinder, dwell_angle, fire_angle, rpm) ==
    /\ MainLoopRuns
    /\ LET r == MultistageScheduleIgnition(World, ms, cylinder, dwell_angle,
                    fire_angle, "coil_charge", "coil_fire", rpm, now)
       IN  /\ SetWorld(r.w)
           /\ ms' = r.ms
           /\ last' = [NoObs EXCEPT !.op = "multistage_schedule_ignition",
                                    !.ret = r.ret, !.reason = r.reason,
                                    !.arg = cylinder, !.id = r.id,
                                    !.slots = r.slots]
    /\ calls' = calls + 1
    /\ UNCHANGED <<ctlVars, main, dec, now, hist>>

CancelEvent(event_id) ==
    /\ MainLoopRuns
    /\ LET r == MultistageCancelEvent(ms, event_id)
       IN  /\ ms' = r.ms
           /\ last' = [NoObs EXCEPT !.op = "multistage_cancel_event",
                                    !.ret = IF r.ret THEN 1 ELSE 0,
                                    !.arg = event_id]
           /\ hist' = IF r.ret
                      THEN [hist EXCEPT !.ms_cancelled = @ \cup
                               ({ms.events[event_id].start_seq,
                                 ms.events[event_id].end_seq} \ hist.fired)]
                      ELSE hist
    /\ calls' = calls + 1
    /\ UNCHANGED <<ctlVars, main, dec, sched, hw, ftm_channel_allocated, now>>

CancelCylinder(cylinder) ==
    /\ MainLoopRuns
    /\ ms' = MultistageCancelCylinder(ms, cylinder)
    /\ last' = [NoObs EXCEPT !.op = "multistage_cancel_cylinder",
                             !.arg = cylinder]
    /\ hist' = [hist EXCEPT !.ms_cancelled = @ \cup
                   (UNION {{ms.events[i].start_seq, ms.events[i].end_seq} :
                             i \in {j \in MsIds : ms.events[j].active
                                       /\ ms.events[j].cylinder = cylinder}}
                      \ hist.fired)]
    /\ calls' = calls + 1
    /\ UNCHANGED <<ctlVars, main, dec, sched, hw, ftm_channel_allocated, now>>

\* FTM1_IRQHandler / FTM2_IRQHandler: the due channel that comes first in
\* the handlers' scan is serviced by hw_scheduler_ftm_isr
TimerInterrupt ==
    /\ DueEvents # {}
    /\ LET i == CHOOSE d \in DueEvents : \A o \in DueEvents :
                    ChannelOrder(<<hw.events[d].ftm, hw.events[d].channel>>)
                      <= ChannelOrder(<<hw.events[o].ftm, hw.events[o].channel>>)
           slot == hw.events[i].context
           ran  == slot >= 0 /\ sched.events[slot].action # "NULL"
       IN  /\ SetWorld(HwSchedulerFtmIsr(World, i, now))
           /\ hist' = IF ran
                      THEN [hist EXCEPT !.fired = @ \cup {sched.events[slot].seq}]
                      ELSE hist
           /\ last' = [NoObs EXCEPT
                          !.op = "hw_scheduler_ftm_isr",
                          !.ret = IF ran THEN 1 ELSE 0,
                          !.seq = IF ran THEN sched.events[slot].seq ELSE 0,
                          !.arg = IF ran THEN sched.events[slot].cylinder ELSE 0,
                          !.action = IF ran THEN sched.events[slot].action
                                     ELSE "NULL",
                          !.slots = IF ran THEN {slot} ELSE {}]
    /\ UNCHANGED <<ctlVars, main, dec, ms, now, calls>>

\* Time passes until the next armed compare time
Tick ==
    /\ DueEvents = {}
    /\ LET ahead == {hw.events[i].scheduled_time_us :
                        i \in {j \in HwIds : hw.events[j].active
                                  /\ hw.events[j].scheduled_time_us >= 0
                                  /\ hw.events[j].scheduled_time_us <= MaxTime}}
       IN  /\ ahead # {}
           /\ now' = MinOf(ahead)
    /\ last' = [NoObs EXCEPT !.op = "tick"]
    /\ UNCHANGED <<ctlVars, main, dec, sched, hw, ftm_channel_allocated, ms, calls, hist>>

InitDecoder == dec \in {DecoderInitState(t, 1) : t \in TeethChoices}

\* the controllers before their init functions have run
InitControllers ==
    /\ ign = IgnitionZeroState /\ ecu = EcuZeroState /\ rpmc = RpmZeroState
    /\ cam = CamZeroState /\ eng = EngZeroState
    /\ injc = InjectorZeroState

InitScheduler ==
    /\ \E w \in InitialWorlds :
           /\ sched = w.sched
           /\ hw = w.hw
           /\ ftm_channel_allocated = w.alloc
    /\ ms = MultistageInitState
    /\ now = 0
    /\ calls = 0
    /\ hist = NoHistory
    /\ main = MainIdle
    /\ InitControllers

\* The decoder on its own
NextTrig ==
    \/ \E t \in TeethChoices : TriggerDecoderInit(t, 1)
    \/ \E ts \in TimeStamps : ProcessTooth(ts)
    \/ \E r \in SyncRatioChoices : SetSyncRatio(r[1], r[2])
    \/ \E i \in 0..MaxSyncPoint : SetSyncPoint(i)
    \/ TriggerDecoderReset
    \/ SetToothCallback
    \/ SetSyncCallback

InitTrig ==
    /\ InitDecoder
    /\ sched = FreshWorld.sched
    /\ hw = FreshWorld.hw
    /\ ftm_channel_allocated = {}
    /\ ms = MultistageInitState
    /\ now = 0
    /\ calls = 0
    /\ hist = NoHistory
    /\ main = MainIdle
    /\ InitControllers
    /\ last = NoObs

SpecTrig == InitTrig /\ [][NextTrig]_vars

\* The angle scheduler and its hardware-timer port
NextSched ==
    \/ SchedulerInit
    \/ \E a \in UpdateAngles, r \in RpmChoices : UpdateAngle(a, r)
    \/ \E a \in EventAngles, c \in Cylinders, f \in EventActions :
           AddEvent(a, c, f)
    \/ ClearEvents
    \/ \E c \in Cylinders : RemoveCylinderEvents(c)
    \/ TimerInterrupt
    \/ Tick

InitSched ==
    /\ dec = DecoderInitState(2, 1)
    /\ InitScheduler
    /\ last = NoObs

SpecSched == InitSched /\ [][NextSched]_vars

\* The multi-stage scheduler on top of the angle scheduler
NextMs ==
    \/ \E a \in UpdateAngles, r \in RpmChoices : UpdateAngle(a, r)
    \/ \E c \in Cylinders, a \in InjectionStart, d \in InjectionUs,
          r \in RpmChoices : ScheduleInjection(c, a, d, r)
    \/ \E c \in Cylinders, p \in IgnitionAngles, r \in RpmChoices :
           ScheduleIgnition(c, p[1], p[2], r)
    \/ \E id \in CancelIds : CancelEvent(id)
    \/ \E c \in Cylinders : CancelCylinder(c)
    \/ TimerInterrupt
    \/ Tick

SpecMs == InitSched /\ [][NextMs]_vars

\* A crank tooth edge is captured at time ts: time passes until then, which
\* it can only if no timer interrupt comes first
ToothInterrupt(ts) ==
    /\ ts >= now
    /\ \A i \in HwIds : hw.events[i].active
           => LtU(ts, hw.events[i].scheduled_time_us)
    /\ ProcessToothCall(ts)
    /\ now' = ts
    /\ UNCHANGED <<ctlVars, main, sched, hw, ftm_channel_allocated, ms, calls, hist>>

\* The decoder and the schedulers together, as the firmware links them
NextSys ==
    \/ \E ts \in TimeStamps : ToothInterrupt(ts)
    \/ \E c \in Cylinders : calls < MaxSysCalls /\ AddEvent(90, c, "act")
    \/ \E c \in Cylinders :
           calls < MaxSysCalls /\ ScheduleInjection(c, 90, 540, 6000)
    \/ TimerInterrupt
    \/ Tick

SpecSys == InitSched /\ [][NextSys]_vars

\* The timer interrupt is held off for a while after the compare match (the
\* other FTM's handler, or an action of an earlier event, is still running)
LatencyChoices == {50, 150}

InterruptLatency(d) ==
    /\ \E i \in DueEvents : hw.events[i].scheduled_time_us = now
    /\ now + d <= MaxTime
    /\ now' = now + d
    /\ last' = [NoObs EXCEPT !.op = "latency"]
    /\ UNCHANGED <<ctlVars, main, dec, sched, hw, ftm_channel_allocated, ms, calls, hist>>

\* The angle scheduler with timer interrupts that may be serviced late
NextLate ==
    \/ \E a \in UpdateAngles, r \in RpmChoices : UpdateAngle(a, r)
    \/ \E a \in EventAngles, c \in Cylinders, f \in EventActions :
           AddEvent(a, c, f)
    \/ \E d \in LatencyChoices : InterruptLatency(d)
    \/ TimerInterrupt
    \/ Tick

SpecLate == InitSched /\ [][NextLate]_vars

(***************************************************************************)
(* The ignition controller on its own: the calls are stamped with the      *)
(* clock, which moves between them                                         *)
(***************************************************************************)
MaxCoils    == 2
MaxIgnCalls == 5

CoilCounts     == 1..MaxCoils
DwellLimits    == {0, 3000}
IgnClockSteps  == {6000}
\* the coils a call may name: the configured ones and one past them
CoilArgs       == 0..MaxCoils

\* everything but the controllers, idle
InitIdle ==
    /\ dec = DecoderInitState(2, 1)
    /\ sched = FreshWorld.sched
    /\ hw = FreshWorld.hw
    /\ ftm_channel_allocated = {}
    /\ ms = MultistageInitState
    /\ now = 0
    /\ calls = 0
    /\ hist = NoHistory
    /\ main = MainIdle
    /\ last = NoObs

idleVars == <<dec, sched, hw, ftm_channel_allocated, ms, hist, main>>

IgnCall(op, g, ret, cylinder) ==
    /\ calls < MaxIgnCalls
    /\ calls' = calls + 1
    /\ ign' = g
    /\ last' = [NoObs EXCEPT !.op = op, !.ret = ret, !.arg = cylinder]
    /\ UNCHANGED <<idleVars, now, ecu, rpmc, cam, eng, injc>>

IgnitionInitCall(num_coils, max_dwell_us) ==
    IgnCall("ignition_control_init",
            IgnitionControlInit(ign, num_coils, max_dwell_us), 0, num_coils)

IgnitionEnableCall(cylinder, enable) ==
    IgnCall("ignition_enable", IgnitionEnable(ign, cylinder, enable), 0,
            cylinder)

IgnitionChargeStartCall(cylinder) ==
    IgnCall("ignition_charge_start", IgnitionChargeStart(ign, cylinder, now),
            0, cylinder)

IgnitionFireCall(cylinder) ==
    IgnCall("ignition_fire", IgnitionFire(ign, cylinder, now), 0, cylinder)

IgnitionCheckOverDwellCall ==
    LET r == IgnitionCheckOverDwell(ign, now)
    IN  IgnCall("ignition_check_over_dwell", r.g, r.ret, 0)

IgnitionEmergencyShutdownCall ==
    IgnCall("ignition_emergency_shutdown", IgnitionEmergencyShutdown(ign), 0,
            0)

\* micros() moves on between two calls
IgnClock(d) ==
    /\ now + d <= MaxTime
    /\ now' = now + d
    /\ last' = [NoObs EXCEPT !.op = "clock"]
    /\ UNCHANGED <<idleVars, calls, ctlVars>>

NextIgn ==
    \/ \E n \in CoilCounts, d \in DwellLimits : IgnitionInitCall(n, d)
    \/ \E c \in CoilArgs, b \in BOOLEAN : IgnitionEnableCall(c, b)
    \/ \E c \in CoilArgs : IgnitionChargeStartCall(c)
    \/ \E c \in CoilArgs : IgnitionFireCall(c)
    \/ IgnitionCheckOverDwellCall
    \/ IgnitionEmergencyShutdownCall
    \/ \E d \in IgnClockSteps : IgnClock(d)

InitIgn ==
    /\ InitIdle
    /\ ecu = EcuZeroState
    /\ rpmc = RpmZeroState
    /\ cam = CamZeroState
    /\ eng = EngZeroState
    /\ injc = InjectorZeroState
    /\ \E n \in CoilCounts, d \in DwellLimits :
           ign = IgnitionControlInit(IgnitionZeroState, n, d)

SpecIgn == InitIgn /\ [][NextIgn]_vars

(***************************************************************************)
(* The engine controller on its own: the main loop reads the sensors,      *)
(* computes the pulse and may run the closed-loop update                   *)
(***************************************************************************)
MaxEcuCalls == 2

\* ADC voltages of one pass over the sensors
SensorFrames ==
    [tps : {1000}, map : {300, 1833}, clt : {1000, 2500}, iat : {0, 3000},
     o2 : {100, 900}, battery : {2700}]
RpmReadings    == {0, 100, 101, 3000}
Displacements  == {2000}
\* what the corrections ecu_init leaves alone may hold
HeldCorrections == {0, 100}
AfrArgs        == {-900000, 1000, 1310, 2000, 900000}

EcuCall(op, e, ret, arg) ==
    /\ calls < MaxEcuCalls
    /\ calls' = calls + 1
    /\ ecu' = e
    /\ last' = [NoObs EXCEPT !.op = op, !.ret = ret, !.arg = arg]
    /\ UNCHANGED <<idleVars, now, ign, rpmc, cam, eng, injc>>

EcuInitCall(displacement_cc, num_cylinders) ==
    EcuCall("ecu_init", EcuInit(ecu, displacement_cc, num_cylinders), 0, 0)

\* (the observation keeps the integral_error the call found)
EcuUpdateSensorsCall(f, rpm) ==
    EcuCall("ecu_update_sensors", EcuUpdateSensors(ecu, f, rpm), 0,
            ecu.integral_error)

CalculateFuelPulseCall ==
    LET r == CalculateFuelPulse(ecu)
    IN  \E ret \in r.rets : EcuCall("calculate_fuel_pulse", r.e, ret, 0)

UpdateClosedLoopFuelCall(target_afr, actual_afr) ==
    EcuCall("update_closed_loop_fuel",
            UpdateClosedLoopFuel(ecu, target_afr, actual_afr, SENSOR_DT), 0,
            target_afr - actual_afr)

NextEcu ==
    \/ \E d \in Displacements : EcuInitCall(d, 4)
    \/ \E f \in SensorFrames, r \in RpmReadings : EcuUpdateSensorsCall(f, r)
    \/ CalculateFuelPulseCall
    \/ \E t \in AfrArgs, a \in AfrArgs : UpdateClosedLoopFuelCall(t, a)

InitEcu ==
    /\ InitIdle
    /\ ign = IgnitionZeroState
    /\ rpmc = RpmZeroState
    /\ cam = CamZeroState
    /\ eng = EngZeroState
    /\ injc = InjectorZeroState
    /\ \E d \in Displacements, c \in HeldCorrections :
           ecu = EcuInit([EcuZeroState EXCEPT !.clt_correction = c,
                                              !.iat_correction = 100],
                         d, 4)

SpecEcu == InitEcu /\ [][NextEcu]_vars

(***************************************************************************)
(* The closed-loop update on its own, called over and over once the        *)
(* engine is warm and running                                              *)
(***************************************************************************)
LoopTargets == {1310, 21310}
LoopActuals == {-898690, 1310, 31310, 901310}
WarmFrames  == {f \in SensorFrames : f.clt = 1000 /\ f.iat = 3000}

ClosedLoopCall(target_afr, actual_afr) ==
    /\ ecu' = UpdateClosedLoopFuel(ecu, target_afr, actual_afr, SENSOR_DT)
    /\ last' = [NoObs EXCEPT !.op = "update_closed_loop_fuel",
                             !.arg = target_afr - actual_afr]
    /\ UNCHANGED <<idleVars, now, calls, ign, rpmc, cam, eng, injc>>

NextLoop == \E t \in LoopTargets, a \in LoopActuals : ClosedLoopCall(t, a)

InitLoop ==
    /\ InitIdle
    /\ ign = IgnitionZeroState
    /\ rpmc = RpmZeroState
    /\ cam = CamZeroState
    /\ eng = EngZeroState
    /\ injc = InjectorZeroState
    /\ \E d \in Displacements, f \in WarmFrames :
           ecu = EcuUpdateSensors(EcuInit(EcuZeroState, d, 4), f, 3000)

SpecLoop == InitLoop /\ [][NextLoop]_vars /\ WF_vars(NextLoop)

(***************************************************************************)
(* The wall-wetting compensation on its own, called cycle after cycle with *)
(* the same desired fuel mass, which last.arg carries                      *)
(***************************************************************************)
WallCoefficients == {<<95, 50>>, <<90, 10>>, <<50, 99>>, <<10, 80>>}  \* (alpha, beta)
DesiredMasses    == {0, 10000}
InitialFilms     == {0, 300000}

UpdateWallWettingCall ==
    LET r == UpdateWallWetting(ecu, Fin(last.arg))
    IN  /\ ecu' = [ecu EXCEPT !.fuel_film_mass = r.film]
        /\ last' = [NoObs EXCEPT !.op = "update_wall_wetting",
                                 !.arg = last.arg,
                                 !.ret = r.m_cmd.v]
        /\ UNCHANGED <<idleVars, now, calls, ign, rpmc, cam, eng, injc>>

NextWall == UpdateWallWettingCall

InitWall ==
    /\ dec = DecoderInitState(2, 1)
    /\ sched = FreshWorld.sched
    /\ hw = FreshWorld.hw
    /\ ftm_channel_allocated = {}
    /\ ms = MultistageInitState
    /\ now = 0
    /\ calls = 0
    /\ hist = NoHistory
    /\ main = MainIdle
    /\ ign = IgnitionZeroState
    /\ rpmc = RpmZeroState
    /\ cam = CamZeroState
    /\ eng = EngZeroState
    /\ injc = InjectorZeroState
    /\ \E d \in Displacements, k \in WallCoefficients, f \in InitialFilms :
           ecu = [EcuInit(EcuZeroState, d, 4) EXCEPT !.alpha = k[1],
                                                  !.beta = k[2],
                                                  !.fuel_film_mass = Fin(f)]
    /\ \E m \in DesiredMasses : last = [NoObs EXCEPT !.arg = m]

SpecWall == InitWall /\ [][NextWall]_vars /\ WF_vars(NextWall)

(***************************************************************************)
(* The injection dispatch on its own: the application picks the injection  *)
(* mode (ecu_init leaves it at simultaneous; there is no setter, the field *)
(* is assigned) and asks which injectors to fire at a crank angle          *)
(***************************************************************************)
MaxInjCalls == 3

CylinderCounts == {4, 6, 8}
CrankAngles    == {0, 3, 5, 180, 362, 540, 717}

InjCall(op, e, mask, crank_angle) ==
    /\ calls < MaxInjCalls
    /\ calls' = calls + 1
    /\ ecu' = e
    /\ last' = [NoObs EXCEPT !.op = op, !.slots = mask, !.arg = crank_angle]
    /\ UNCHANGED <<idleVars, now, ign, rpmc, cam, eng, injc>>

InjEcuInitCall(displacement_cc, num_cylinders) ==
    InjCall("ecu_init", EcuInit(ecu, displacement_cc, num_cylinders), {}, 0)

SetInjectionMode(mode) ==
    InjCall("injection_mode", [ecu EXCEPT !.injection_mode = mode], {}, 0)

InitBatchInjectionPairsCall ==
    InjCall("init_batch_injection_pairs", InitBatchInjectionPairs(ecu), {}, 0)

GetInjectorsToFireCall(crank_angle) ==
    InjCall("get_injectors_to_fire", ecu,
            GetInjectorsToFire(ecu, crank_angle), crank_angle)

NextInj ==
    \/ \E d \in Displacements, n \in CylinderCounts : InjEcuInitCall(d, n)
    \/ \E m \in InjectionModes : SetInjectionMode(m)
    \/ InitBatchInjectionPairsCall
    \/ \E a \in CrankAngles : GetInjectorsToFireCall(a)

InitInj ==
    /\ InitIdle
    /\ ign = IgnitionZeroState
    /\ rpmc = RpmZeroState
    /\ cam = CamZeroState
    /\ eng = EngZeroState
    /\ injc = InjectorZeroState
    /\ \E d \in Displacements, n \in CylinderCounts :
           ecu = EcuInit(EcuZeroState, d, n)

SpecInj == InitInj /\ [][NextInj]_vars

(***************************************************************************)
(* The RPM calculator on its own: the calls are stamped with the clock,    *)
(* which moves between them                                                *)
(***************************************************************************)
MaxRpmCalls == 4

ToothPeriods      == {277, 1000, 1640, 1667, 5555}
TeethPerRev       == {0, 36}
RevolutionPeriods == {999, 60000}
TimeoutChoices    == {5000, DEFAULT_TIMEOUT_US}
FilterChoices     == {5, 100}
CrankingThresholds == {400}
CrankingFilters   == {20}
RpmClockSteps     == {6000, 1000001}

\* arg and id keep the period and the teeth per revolution of the call
RpmCall(op, c, period_us, teeth_per_rev) ==
    /\ calls < MaxRpmCalls
    /\ calls' = calls + 1
    /\ rpmc' = c
    /\ last' = [NoObs EXCEPT !.op = op, !.arg = period_us,
                             !.id = teeth_per_rev]
    /\ UNCHANGED <<idleVars, now, ign, ecu, cam, eng, injc>>

RpmInitCall == RpmCall("rpm_calculator_init", RpmCalculatorInit, 0, 0)

RpmOnToothCall(period_us, teeth_per_rev) ==
    RpmCall("rpm_calculator_on_tooth",
            RpmCalculatorOnTooth(rpmc, period_us, teeth_per_rev, now),
            period_us, teeth_per_rev)

RpmOnRevolutionCall(revolution_period_us) ==
    RpmCall("rpm_calculator_on_revolution",
            RpmCalculatorOnRevolution(rpmc, revolution_period_us, now),
            revolution_period_us, 0)

RpmCheckTimeoutCall ==
    RpmCall("rpm_calculator_check_timeout",
            RpmCalculatorCheckTimeout(rpmc, now), 0, 0)

RpmSetTimeoutCall(timeout_us) ==
    RpmCall("rpm_calculator_set_timeout",
            RpmCalculatorSetTimeout(rpmc, timeout_us), 0, 0)

RpmSetFilterCall(coefficient) ==
    RpmCall("rpm_calculator_set_filter_coefficient",
            RpmCalculatorSetFilterCoefficient(rpmc, coefficient), 0, 0)

RpmResetCall == RpmCall("rpm_calculator_reset", RpmCalculatorReset(rpmc), 0, 0)

RpmUpdateCrankingModeCall ==
    RpmCall("rpm_calculator_update_cranking_mode",
            RpmCalculatorUpdateCrankingMode(rpmc), 0, 0)

RpmSetCrankingThresholdCall(threshold_rpm) ==
    RpmCall("rpm_calculator_set_cranking_threshold",
            RpmCalculatorSetCrankingThreshold(rpmc, threshold_rpm), 0, 0)

RpmSetCrankingFilterCall(coefficient) ==
    RpmCall("rpm_calculator_set_cranking_filter",
            RpmCalculatorSetCrankingFilter(rpmc, coefficient), 0, 0)

\* micros() moves on between two calls
RpmClock(d) ==
    /\ calls < MaxRpmCalls
    /\ calls' = calls + 1
    /\ now' = now + d
    /\ last' = [NoObs EXCEPT !.op = "clock"]
    /\ UNCHANGED <<idleVars, ctlVars>>

NextRpm ==
    \/ RpmInitCall
    \/ \E p \in ToothPeriods, n \in TeethPerRev : RpmOnToothCall(p, n)
    \/ \E p \in RevolutionPeriods : RpmOnRevolutionCall(p)
    \/ RpmCheckTimeoutCall
    \/ \E t \in TimeoutChoices : RpmSetTimeoutCall(t)
    \/ \E c \in FilterChoices : RpmSetFilterCall(c)
    \/ RpmResetCall
    \/ RpmUpdateCrankingModeCall
    \/ \E t \in CrankingThresholds : RpmSetCrankingThresholdCall(t)
    \/ \E c \in CrankingFilters : RpmSetCrankingFilterCall(c)
    \/ \E d \in RpmClockSteps : RpmClock(d)

InitRpm ==
    /\ InitIdle
    /\ ign = IgnitionZeroState
    /\ ecu = EcuZeroState
    /\ rpmc = RpmCalculatorInit
    /\ cam = CamZeroState
    /\ eng = EngZeroState
    /\ injc = InjectorZeroState

SpecRpm == InitRpm /\ [][NextRpm]_vars

(***************************************************************************)
(* Camshaft synchronisation on its own: the cam input is sampled over and  *)
(* over.  last.seq counts the rising edges sampled since the last          *)
(* cam_sync_init / cam_sync_reset (up to MaxEdgeCount), last.ret the       *)
(* invocations of the sync callback and last.reason the phase passed.      *)
(***************************************************************************)
MaxCamCalls  == 8        \* cam-sync API calls per behaviour
CamTeeth     == {17}
CamCallbacks == {"NULL", "on_cycle_sync"}
MaxEdgeCount == 3        \* rising edges counted since init / reset

CamCall(op, c, seq, callbacks, arg) ==
    /\ calls < MaxCamCalls
    /\ calls' = calls + 1
    /\ cam' = c
    /\ last' = [NoObs EXCEPT !.op = op, !.seq = seq, !.arg = arg,
                             !.ret = Len(callbacks),
                             !.reason = IF callbacks = <<>> THEN ""
                                        ELSE callbacks[1]]
    /\ UNCHANGED <<idleVars, now, ign, ecu, rpmc, eng, injc>>

CamSyncInitCall == CamCall("cam_sync_init", CamSyncInit(cam), 0, <<>>, 0)

CamSyncResetCall == CamCall("cam_sync_reset", CamSyncReset(cam), 0, <<>>, 0)

CamSyncSetCallbackCall(callback) ==
    CamCall("cam_sync_set_callback", CamSyncSetCallback(cam, callback),
            last.seq, <<>>, 0)

\* the cam input handler samples the pin; a sample is a rising edge when the
\* pin is high and the sample before it (or the reset) left it low
CamSyncProcessEventCall(cam_signal, crank_tooth) ==
    LET r      == CamSyncProcessEvent(cam, cam_signal, crank_tooth)
        rising == cam_signal /\ ~cam.prev_cam_signal
    IN  CamCall("cam_sync_process_event", r.c,
                IF rising THEN Clamp(last.seq + 1, 0, MaxEdgeCount)
                ELSE last.seq,
                r.callbacks, IF cam_signal THEN 1 ELSE 0)

NextCam ==
    \/ CamSyncInitCall
    \/ CamSyncResetCall
    \/ \E f \in CamCallbacks : CamSyncSetCallbackCall(f)
    \/ \E v \in BOOLEAN, t \in CamTeeth : CamSyncProcessEventCall(v, t)

InitCam ==
    /\ InitIdle
    /\ ign = IgnitionZeroState
    /\ ecu = EcuZeroState
    /\ rpmc = RpmZeroState
    /\ eng = EngZeroState
    /\ injc = InjectorZeroState
    /\ cam = CamSyncInit(CamZeroState)

SpecCam == InitCam /\ [][NextCam]_vars

(***************************************************************************)
(* The engine controller state machine on its own: the sensor integration  *)
(* stores readings, the main loop calls engine_controller_update once per  *)
(* period, stamped with the clock.  last.arg is the rpm passed and         *)
(* last.reason the state the call found.                                   *)
(***************************************************************************)
MaxEngCalls == 5

EngUpdatePeriods == {10000}
EngineConfigs ==
    {[cranking_rpm |-> 400, idle_rpm_target |-> 800,
      load_method |-> "LOAD_METHOD_ALPHA_N"]}
EngineRpms    == {0, 300, 900, 2000, 32768}
TpsReadings   == {<<TRUE, 0>>, <<TRUE, 3>>, <<TRUE, 50>>, <<FALSE, 0>>}
CltReadings   == {<<TRUE, 20>>, <<TRUE, 70>>, <<TRUE, 85>>, <<FALSE, 0>>}
CycleAngleArgs == {0}

EngCall(op, c, rpm) ==
    /\ calls < MaxEngCalls
    /\ calls' = calls + 1
    /\ eng' = c
    /\ last' = [NoObs EXCEPT !.op = op, !.arg = rpm, !.reason = eng.state]
    /\ UNCHANGED <<idleVars, ign, ecu, rpmc, cam, injc>>

EngineControllerInitCall(config) ==
    /\ EngCall("engine_controller_init", EngineControllerInit(config), 0)
    /\ UNCHANGED now

EngineControllerUpdateCall(rpm, cycle_angle, period) ==
    /\ now' = now + period
    /\ EngCall("engine_controller_update",
               EngineControllerUpdate(eng, rpm, cycle_angle, now + period),
               rpm)

EngineControllerUpdateStateCall(rpm) ==
    /\ EngCall("engine_controller_update_state",
               EngineControllerUpdateState(eng, rpm), rpm)
    /\ UNCHANGED now

EngineControllerEmergencyShutdownCall ==
    /\ EngCall("engine_controller_emergency_shutdown",
               EngineControllerEmergencyShutdown(eng), 0)
    /\ UNCHANGED now

SensorIntegrationUpdateTpsCall(valid, tps_percent) ==
    /\ EngCall("sensor_integration_update_tps",
               SensorIntegrationUpdateTps(eng, valid, tps_percent), 0)
    /\ UNCHANGED now

SensorIntegrationUpdateCltCall(valid, clt_celsius) ==
    /\ EngCall("sensor_integration_update_clt",
               SensorIntegrationUpdateClt(eng, valid, clt_celsius), 0)
    /\ UNCHANGED now

NextEng ==
    \/ \E g \in EngineConfigs : EngineControllerInitCall(g)
    \/ \E r \in EngineRpms, a \in CycleAngleArgs, d \in EngUpdatePeriods :
           EngineControllerUpdateCall(r, a, d)
    \/ \E r \in EngineRpms : EngineControllerUpdateStateCall(r)
    \/ EngineControllerEmergencyShutdownCall
    \/ \E t \in TpsReadings : SensorIntegrationUpdateTpsCall(t[1], t[2])
    \/ \E t \in CltReadings : SensorIntegrationUpdateCltCall(t[1], t[2])

InitEng ==
    /\ InitIdle
    /\ ign = IgnitionZeroState
    /\ ecu = EcuZeroState
    /\ rpmc = RpmZeroState
    /\ cam = CamZeroState
    /\ injc = InjectorZeroState
    /\ \E g \in EngineConfigs : eng = EngineControllerInit(g)

SpecEng == InitEng /\ [][NextEng]_vars

(***************************************************************************)
(* The injector outputs on their own: the scheduled actions switch the     *)
(* injectors on and off, the application enables, disables and shuts       *)
(* down.  last.arg is the injector named and last.ret the flag passed.     *)
(***************************************************************************)
MaxInjectorCalls == 5

InjectorCounts   == {2}
InjectorArgs     == {0, 1, 2}        \* the configured ones and one past them
InjectorClockSteps == {1500}

InjcCall(op, j, cylinder, flag) ==
    /\ calls < MaxInjectorCalls
    /\ calls' = calls + 1
    /\ injc' = j
    /\ last' = [NoObs EXCEPT !.op = op, !.arg = cylinder,
                             !.ret = IF flag THEN 1 ELSE 0]
    /\ UNCHANGED <<idleVars, ign, ecu, rpmc, cam, eng>>

InjectorControlInitCall(num_injectors) ==
    /\ InjcCall("injector_control_init",
                InjectorControlInit(injc, num_injectors), num_injectors, FALSE)
    /\ UNCHANGED now

InjectorConfigureCall(cylinder, invert_polarity) ==
    /\ InjcCall("injector_configure",
                InjectorConfigure(injc, cylinder, invert_polarity),
                cylinder, invert_polarity)
    /\ UNCHANGED now

InjectorEnableCall(cylinder, enable) ==
    /\ InjcCall("injector_enable", InjectorEnable(injc, cylinder, enable),
                cylinder, enable)
    /\ UNCHANGED now

\* the clock has moved on when a scheduled action switches an injector
InjectorOnCall(cylinder, step) ==
    /\ now' = now + step
    /\ InjcCall("injector_on", InjectorOn(injc, cylinder, now + step),
                cylinder, FALSE)

InjectorOffCall(cylinder, step) ==
    /\ now' = now + step
    /\ InjcCall("injector_off", InjectorOff(injc, cylinder, now + step),
                cylinder, FALSE)

InjectorEmergencyShutdownCall ==
    /\ InjcCall("injector_emergency_shutdown",
                InjectorEmergencyShutdown(injc), 0, FALSE)
    /\ UNCHANGED now

NextInjc ==
    \/ \E n \in InjectorCounts : InjectorControlInitCall(n)
    \/ \E c \in InjectorArgs, p \in BOOLEAN : InjectorConfigureCall(c, p)
    \/ \E c \in InjectorArgs, e \in BOOLEAN : InjectorEnableCall(c, e)
    \/ \E c \in InjectorArgs, d \in InjectorClockSteps : InjectorOnCall(c, d)
    \/ \E c \in InjectorArgs, d \in InjectorClockSteps : InjectorOffCall(c, d)
    \/ InjectorEmergencyShutdownCall

InitInjc ==
    /\ InitIdle
    /\ ign = IgnitionZeroState
    /\ ecu = EcuZeroState
    /\ rpmc = RpmZeroState
    /\ cam = CamZeroState
    /\ eng = EngZeroState
    /\ \E n \in InjectorCounts :
           injc = InjectorControlInit(InjectorZeroState, n)

SpecInjc == InitInjc /\ [][NextInjc]_vars

(***************************************************************************)
(* The angle scheduler with its calls taken statement by statement: the    *)
(* main loop is inside scheduler_add_event or                              *)
(* scheduler_remove_cylinder_events, and between any two of its statements *)
(* the timer interrupt is serviced when a compare time has come, and the   *)
(* tooth interrupt may report a loss of sync, on which the application     *)
(* flushes with scheduler_clear_events.  The code masks no interrupt.  An  *)
(* interrupt handler runs to its end, and a call the statement makes       *)
(* (hw_scheduler_schedule, hw_scheduler_cancel) is taken in one step.      *)
(***************************************************************************)
MaxIntrCalls == 3        \* main-loop calls and flushes per behaviour

IntrPending == 2         \* events pending in the initial state

AddEventPcs == {"cylinder", "action", "active", "time", "schedule",
                "hw_event_id", "num_active_events", "events_scheduled"}
RemovePcs   == {"test", "cancel", "deactivate", "clear_id", "decrement"}

\* the events whose timer is armed and whose slot is active
ArmedSeqs(w) ==
    {w.sched.events[w.hw.events[h].context].seq :
        h \in {g \in HwIds : /\ w.hw.events[g].active
                             /\ w.hw.events[g].context >= 0
                             /\ w.sched.events[w.hw.events[g].context].active}}

MainStep == DueEvents = {}

\* scheduler_add_event is entered (lines 140-151): the null test, the scan
\* for a free slot and the first assignment to the slot
AddEventEnter(angle0, cylinder, action) ==
    /\ main.pc = "idle" /\ MainStep /\ calls < MaxIntrCalls
    /\ calls' = calls + 1
    /\ LET free == {i \in SlotIds : ~sched.events[i].active}
       IN  IF action = "NULL" \/ free = {}
           THEN /\ last' = [NoObs EXCEPT
                               !.op = "scheduler_add_event",
                               !.reason = IF action = "NULL"
                                          THEN "null_action" ELSE "queue_full",
                               !.arg = cylinder]
                /\ UNCHANGED <<sched, main>>
           ELSE /\ sched' = [sched EXCEPT !.events[MinOf(free)].trigger_angle =
                                angle0 % FULL_CYCLE_ANGLE]
                /\ main' = [MainIdle EXCEPT
                               !.pc = "cylinder", !.i = MinOf(free),
                               !.angle = angle0 % FULL_CYCLE_ANGLE,
                               !.cylinder = cylinder, !.action = action,
                               !.current_time_us = now]
                /\ last' = [NoObs EXCEPT !.op = "statement"]
    /\ UNCHANGED <<ctlVars, dec, hw, ftm_channel_allocated, ms, now, hist>>

\* the next statement of scheduler_add_event (lines 152-187)
AddEventStatement ==
    /\ main.pc \in AddEventPcs /\ MainStep
    /\ LET i == main.i
       IN  CASE main.pc = "cylinder" ->
                  /\ sched' = [sched EXCEPT !.events[i].cylinder = main.cylinder]
                  /\ main' = [main EXCEPT !.pc = "action"]
                  /\ last' = [NoObs EXCEPT !.op = "statement"]
                  /\ UNCHANGED <<hw, ftm_channel_allocated>>
             [] main.pc = "action" ->
                  /\ sched' = [sched EXCEPT !.events[i].action = main.action]
                  /\ main' = [main EXCEPT !.pc = "active"]
                  /\ last' = [NoObs EXCEPT !.op = "statement"]
                  /\ UNCHANGED <<hw, ftm_channel_allocated>>
             [] main.pc = "active" ->
                  /\ sched' = [sched EXCEPT !.events[i].active = TRUE]
                  /\ main' = [main EXCEPT !.pc = "time"]
                  /\ last' = [NoObs EXCEPT !.op = "statement"]
                  /\ UNCHANGED <<hw, ftm_channel_allocated>>
             [] main.pc = "time" ->
                  LET delta == AngleDelta(main.angle, sched.current_angle)
                      fire  == Add32(main.current_time_us,
                                     Mul32(sched.us_per_degree, delta))
                  IN  /\ sched' = [sched EXCEPT
                                      !.events[i].angle_delta = delta,
                                      !.events[i].scheduled_time_us = fire]
                      /\ main' = [main EXCEPT !.pc = "schedule",
                                              !.fire_time_us = fire]
                      /\ last' = [NoObs EXCEPT !.op = "statement"]
                      /\ UNCHANGED <<hw, ftm_channel_allocated>>
             [] main.pc = "schedule" ->
                  LET r == HwSchedulerSchedule(World, main.fire_time_us, i)
                  IN  /\ SetWorld(IF r.id >= 0
                                  THEN [r.w EXCEPT !.sched.events[i].seq =
                                           sched.events_scheduled + 1]
                                  ELSE r.w)
                      /\ main' = [main EXCEPT !.pc = "hw_event_id",
                                              !.hw_id = r.id]
                      /\ last' = [NoObs EXCEPT !.op = "statement"]
             [] main.pc = "hw_event_id" ->
                  IF main.hw_id >= 0
                  THEN /\ sched' = [sched EXCEPT
                                       !.events[i].hw_event_id = main.hw_id]
                       /\ main' = [main EXCEPT !.pc = "num_active_events"]
                       /\ last' = [NoObs EXCEPT !.op = "statement"]
                       /\ UNCHANGED <<hw, ftm_channel_allocated>>
                  ELSE /\ sched' = [sched EXCEPT !.events[i].active = FALSE]
                       /\ main' = MainIdle
                       /\ last' = [NoObs EXCEPT !.op = "scheduler_add_event",
                                                !.reason = "hw_full",
                                                !.arg = main.cylinder]
                       /\ UNCHANGED <<hw, ftm_channel_allocated>>
             [] main.pc = "num_active_events" ->
                  /\ sched' = [sched EXCEPT !.num_active_events =
                                  (@ + 1) % UINT8_MOD]
                  /\ main' = [main EXCEPT !.pc = "events_scheduled"]
                  /\ last' = [NoObs EXCEPT !.op = "statement"]
                  /\ UNCHANGED <<hw, ftm_channel_allocated>>
             [] main.pc = "events_scheduled" ->
                  /\ sched' = [sched EXCEPT !.events_scheduled = @ + 1]
                  /\ main' = MainIdle
                  /\ last' = [NoObs EXCEPT !.op = "scheduler_add_event",
                                           !.ret = 1, !.arg = main.cylinder,
                                           !.slots = {i}]
                  /\ UNCHANGED <<hw, ftm_channel_allocated>>
    /\ UNCHANGED <<ctlVars, dec, ms, now, calls, hist>>

\* scheduler_remove_cylinder_events is entered (lines 245-250)
RemoveCylinderEventsEnter(cylinder) ==
    /\ main.pc = "idle" /\ MainStep /\ calls < MaxIntrCalls
    /\ calls' = calls + 1
    /\ main' = [MainIdle EXCEPT !.pc = "test", !.cylinder = cylinder]
    /\ last' = [NoObs EXCEPT !.op = "statement"]
    /\ UNCHANGED <<ctlVars, dec, sched, hw, ftm_channel_allocated, ms, now, hist>>

\* the next statement of scheduler_remove_cylinder_events (lines 252-264);
\* the loop's passes over slots that do not match are taken with the test
\* that matches
RemoveCylinderEventsStatement ==
    /\ main.pc \in RemovePcs /\ MainStep
    /\ LET i == main.i
       IN  CASE main.pc = "test" ->
                  LET match == {j \in SlotIds :
                                   /\ j >= i
                                   /\ sched.events[j].active
                                   /\ sched.events[j].cylinder = main.cylinder}
                  IN  /\ IF match = {}
                         THEN /\ main' = MainIdle
                              /\ last' = [NoObs EXCEPT
                                     !.op = "scheduler_remove_cylinder_events",
                                     !.arg = main.cylinder]
                         ELSE /\ main' = [main EXCEPT !.pc = "cancel",
                                                      !.i = MinOf(match)]
                              /\ last' = [NoObs EXCEPT !.op = "statement"]
                      /\ UNCHANGED <<sched, hw, ftm_channel_allocated, hist>>
             [] main.pc = "cancel" ->
                  LET w == IF sched.events[i].hw_event_id >= 0
                           THEN HwSchedulerCancel(World,
                                                  sched.events[i].hw_event_id)
                           ELSE World
                  IN  /\ SetWorld(w)
                      /\ hist' = [hist EXCEPT !.cancelled =
                                     @ \cup (ArmedSeqs(World) \ ArmedSeqs(w))]
                      /\ main' = [main EXCEPT !.pc = "deactivate"]
                      /\ last' = [NoObs EXCEPT !.op = "statement"]
             [] main.pc = "deactivate" ->
                  /\ sched' = [sched EXCEPT !.events[i].active = FALSE]
                  /\ main' = [main EXCEPT !.pc = "clear_id"]
                  /\ last' = [NoObs EXCEPT !.op = "statement"]
                  /\ UNCHANGED <<hw, ftm_channel_allocated, hist>>
             [] main.pc = "clear_id" ->
                  /\ sched' = [sched EXCEPT !.events[i].hw_event_id = -1]
                  /\ main' = [main EXCEPT !.pc = "decrement"]
                  /\ last' = [NoObs EXCEPT !.op = "statement"]
                  /\ UNCHANGED <<hw, ftm_channel_allocated, hist>>
             [] main.pc = "decrement" ->
                  /\ sched' = [sched EXCEPT !.num_active_events =
                                  (@ + UINT8_MOD - 1) % UINT8_MOD]
                  /\ main' = [main EXCEPT !.pc = "test", !.i = i + 1]
                  /\ last' = [NoObs EXCEPT !.op = "statement"]
                  /\ UNCHANGED <<hw, ftm_channel_allocated, hist>>
    /\ UNCHANGED <<ctlVars, dec, ms, now, calls>>

\* the tooth interrupt reports the loss of sync and the application flushes:
\* scheduler_clear_events runs to its end inside the interrupt
SyncLossFlush ==
    /\ calls < MaxIntrCalls
    /\ calls' = calls + 1
    /\ SetWorld(SchedulerClearEvents(World))
    /\ hist' = [hist EXCEPT !.cancelled = @ \cup ArmedSeqs(World)]
    /\ last' = [NoObs EXCEPT !.op = "scheduler_clear_events"]
    /\ UNCHANGED <<ctlVars, main, dec, ms, now>>

NextIntr ==
    \/ \E c \in Cylinders, f \in EventActions : AddEventEnter(90, c, f)
    \/ AddEventStatement
    \/ \E c \in Cylinders : RemoveCylinderEventsEnter(c)
    \/ RemoveCylinderEventsStatement
    \/ SyncLossFlush
    \/ TimerInterrupt
    \/ Tick

InitIntr ==
    /\ dec = DecoderInitState(2, 1)
    /\ LET w == Fill(Running(FreshWorld), IntrPending)
       IN  /\ sched = w.sched
           /\ hw = w.hw
           /\ ftm_channel_allocated = w.alloc
    /\ ms = MultistageInitState
    /\ now = 0
    /\ calls = 0
    /\ hist = NoHistory
    /\ main = MainIdle
    /\ InitControllers
    /\ last = NoObs

SpecIntr == InitIntr /\ [][NextIntr]_vars

(***************************************************************************)
(* The acceleration tracking of the RPM calculator on its own: crank       *)
(* revolutions are reported, the clock moves, and the acceleration is      *)
(* updated.  The filter coefficient has been set to 1.0, so rpm follows    *)
(* the reading.  last.arg is the time the call was stamped with.           *)
(***************************************************************************)
MaxAccelCalls == 6

AccelRevolutionPeriods == {60000, 58000, 15000, 1000}  \* 1000, 1034, 4000, 60000 rpm
AccelClockSteps        == {50000, 100000}

AccelCall(op, c) ==
    /\ calls < MaxAccelCalls
    /\ calls' = calls + 1
    /\ rpmc' = c
    /\ last' = [NoObs EXCEPT !.op = op, !.arg = now]
    /\ UNCHANGED <<idleVars, now, ign, ecu, cam, eng, injc>>

AccelOnRevolutionCall(revolution_period_us) ==
    AccelCall("rpm_calculator_on_revolution",
              RpmCalculatorOnRevolution(rpmc, revolution_period_us, now))

RpmUpdateAccelerationCall ==
    \E a \in IF AccelerationSampleDue(rpmc, now)
             THEN RpmPerSecondOutcomes(rpmc.rpm - rpmc.prev_rpm,
                                       Sub32(now, rpmc.prev_rpm_time))
             ELSE {0} :
        AccelCall("rpm_calculator_update_acceleration",
                  RpmCalculatorUpdateAcceleration(rpmc, now, a))

AccelClock(d) ==
    /\ calls < MaxAccelCalls
    /\ calls' = calls + 1
    /\ now' = now + d
    /\ last' = [NoObs EXCEPT !.op = "clock"]
    /\ UNCHANGED <<idleVars, ctlVars>>

NextAccel ==
    \/ \E p \in AccelRevolutionPeriods : AccelOnRevolutionCall(p)
    \/ RpmUpdateAccelerationCall
    \/ \E d \in AccelClockSteps : AccelClock(d)

InitAccel ==
    /\ InitIdle
    /\ ign = IgnitionZeroState
    /\ ecu = EcuZeroState
    /\ rpmc = RpmCalculatorSetFilterCoefficient(RpmCalculatorInit, 100)
    /\ cam = CamZeroState
    /\ eng = EngZeroState
    /\ injc = InjectorZeroState

SpecAccel == InitAccel /\ [][NextAccel]_vars

(***************************************************************************)
(* Claims about the trigger decoder                                        *)
(***************************************************************************)
\* The call just made was a process_tooth that got past the first-tooth and
\* noise returns
GapToothProcessed == last.op = "process_tooth" /\ last.gap

AcceptedToothStep ==
    /\ last'.op = "process_tooth"
    /\ dec.prev_tooth_time # 0
    /\ dec'.prev_tooth_time # dec.prev_tooth_time

\* C2 as stated: a locked decoder that receives, without a gap ratio, the
\* tooth whose index would be total_teeth becomes unsynced and
\* sync_loss_count grows by exactly 1; process_tooth changes sync_loss_count
\* at no other time.
CexC2_LossOnlyAtOverrun ==
    [][ /\ (AcceptedToothStep /\ dec.sync_locked /\ ~last'.gap
              /\ dec.tooth_count >= dec.total_teeth)
           => (~dec'.sync_locked
                 /\ dec'.sync_loss_count = dec.sync_loss_count + 1)
        /\ (last'.op = "process_tooth"
              /\ dec'.sync_loss_count # dec.sync_loss_count)
           => (/\ AcceptedToothStep
               /\ dec.sync_locked
               /\ ~last'.gap
               /\ dec.tooth_count >= dec.total_teeth
               /\ ~dec'.sync_locked
               /\ dec'.sync_loss_count = dec.sync_loss_count + 1)
      ]_vars

\* C3 as stated: sync_locked implies 0 <= tooth_count < total_teeth, so
\* get_tooth_index is always in 0..total_teeth-1 (0 when not synced) and the
\* per-tooth callback only ever sees such an index.
CexC3_ToothIndexInRange ==
    /\ dec.sync_locked => (0 <= dec.tooth_count /\ dec.tooth_count < dec.total_teeth)
    /\ dec.total_teeth > 0 => GetToothIndex(dec) \in 0..(dec.total_teeth - 1)
    /\ last.tooth_cb # -1 => last.tooth_cb \in 0..(dec.total_teeth - 1)

(***************************************************************************)
(* Claims about the angle scheduler and the hardware-timer port            *)
(***************************************************************************)
ActiveSlots(s) == {i \in SlotIds : s.events[i].active}
ArmedHwEvents(h) == {i \in HwIds : h.events[i].active}

\* The call just made was a scheduler_add_event with a non-null action that
\* the hardware-timer port refused (no free event slot or no free channel)
AddEventRefusedByPort ==
    last.op = "scheduler_add_event" /\ last.reason = "hw_full"

\* C4: when scheduler_add_event fails because the hardware-timer port has no
\* free event slot or no free FTM channel, the set of active scheduler
\* slots, num_active_events, events_scheduled, the hardware scheduler's
\* events and the allocated channels are the same as before the call.
ThmC4_AddEventRollback ==
    [][ AddEventRefusedByPort' =>
          /\ ActiveSlots(sched') = ActiveSlots(sched)
          /\ sched'.num_active_events = sched.num_active_events
          /\ sched'.events_scheduled = sched.events_scheduled
          /\ hw' = hw
          /\ ftm_channel_allocated' = ftm_channel_allocated
      ]_vars

\* the port refused for lack of an event slot, with channels still free
WitC4_RefusedWithAllHwEventsArmed ==
    /\ AddEventRefusedByPort
    /\ ArmedHwEvents(hw) = HwIds
    /\ Cardinality(ActiveSlots(sched)) = HW_SCHEDULER_MAX_EVENTS
    /\ SchedulingChannels \ ftm_channel_allocated # {}

\* C5 as stated: with a non-null action (and a timer channel to be had),
\* scheduler_add_event fails only when 16 events are pending.
CexC5_FailsOnlyAtSixteenPending ==
    (/\ last.op = "scheduler_add_event"
     /\ last.ret = 0
     /\ last.reason # "null_action"
     /\ SchedulingChannels \ ftm_channel_allocated # {})
        => Cardinality(ActiveSlots(sched)) = MAX_SCHEDULED_EVENTS

\* C6: after scheduler_clear_events no scheduler slot is active and no
\* hardware event is armed; scheduler_remove_cylinder_events(c) deactivates
\* every event of cylinder c and disarms its hardware event, and leaves every
\* other slot and its hardware event as they were; the timer interrupt never
\* runs the action of an event that was cancelled.
ThmC6_CancelDisarms ==
    [][ /\ last'.op = "scheduler_clear_events" =>
              (ActiveSlots(sched') = {} /\ ArmedHwEvents(hw') = {})
        /\ last'.op = "scheduler_remove_cylinder_events" =>
              \A i \in SlotIds :
                  LET e == sched.events[i]
                  IN  IF e.active /\ e.cylinder = last'.arg
                      THEN /\ ~sched'.events[i].active
                           /\ ~hw'.events[e.hw_event_id].active
                           /\ <<hw.events[e.hw_event_id].ftm,
                                hw.events[e.hw_event_id].channel>>
                                  \notin ftm_channel_allocated'
                      ELSE /\ sched'.events[i] = e
                           /\ e.active =>
                                 /\ hw'.events[e.hw_event_id]
                                        = hw.events[e.hw_event_id]
                                 /\ hw'.events[e.hw_event_id].active
                                 /\ hw'.events[e.hw_event_id].context = i
        /\ (last'.op = "hw_scheduler_ftm_isr" /\ last'.ret = 1) =>
              last'.seq \notin hist.cancelled
      ]_vars

\* remove_cylinder_events cancelled something and left another cylinder's
\* event pending
WitC6_RemovedOneCylinderKeptOther ==
    /\ last.op = "scheduler_remove_cylinder_events"
    /\ hist.cancelled # {}
    /\ \E i \in ActiveSlots(sched) :
           /\ sched.events[i].cylinder # last.arg
           /\ hw.events[sched.events[i].hw_event_id].active

(***************************************************************************)
(* Claims about the multi-stage scheduler and the system                   *)
(***************************************************************************)
\* C7 as stated: whenever the decoder goes from synced to unsynced, every
\* pending angle-scheduler event and every active multi-stage event is
\* cancelled: slots inactive, hardware events disarmed.
CexC7_SyncLossFlushes ==
    [][ (dec.sync_locked /\ ~dec'.sync_locked) =>
          /\ ActiveSlots(sched') = {}
          /\ ArmedHwEvents(hw') = {}
          /\ \A j \in MsIds : ~ms'.events[j].active
      ]_vars

MsScheduleOps ==
    {"multistage_schedule_injection", "multistage_schedule_ignition"}

\* C8 as stated: if either scheduler_add_event call of a multi-stage
\* schedule call fails, the call returns -1, the multi-stage slot is
\* inactive and no angle-scheduler event created by the call is pending.
CexC8_FailedScheduleLeavesNothing ==
    (last.op \in MsScheduleOps /\ last.reason \in {"start_failed", "end_failed"})
        => /\ last.ret = -1
           /\ ~ms.events[last.id].active
           /\ \A i \in last.slots : ~sched.events[i].active

\* C9 as stated: the end (close) action of an injection event never runs
\* before the start (open) action of the same event.
CexC9_EndNeverBeforeStart ==
    \A j \in MsIds :
        (/\ ms.events[j].type = "MULTISTAGE_INJECTION"
         /\ ms.events[j].start_seq # 0
         /\ ms.events[j].end_seq \in hist.fired)
            => ms.events[j].start_seq \in hist.fired

\* C10 as stated: after multistage_cancel_event(id) returns true the slot is
\* released and events_cancelled has grown by 1, and no start or end action
\* of a cancelled multi-stage event that had not run yet runs afterwards.
CexC10_CancelStopsActions ==
    [][ /\ (last'.op = "multistage_cancel_event" /\ last'.ret = 1) =>
              /\ ~ms'.events[last'.arg].active
              /\ ms'.events_cancelled = ms.events_cancelled + 1
        /\ (last'.op = "hw_scheduler_ftm_isr" /\ last'.ret = 1) =>
              last'.seq \notin hist.ms_cancelled
      ]_vars

\* C11 as stated: once both the start and the end action of a multi-stage
\* event have executed, its slot is inactive (and so can be scheduled again).
CexC11_FiredEventReleasesSlot ==
    \A j \in MsIds :
        (/\ ms.events[j].start_seq # 0
         /\ ms.events[j].start_seq \in hist.fired
         /\ ms.events[j].end_seq \in hist.fired)
            => /\ ~ms.events[j].active
               /\ ms.events_completed > 0

\* C12 as stated: right after scheduler_update_angle(angle, rpm, now) every
\* pending event's scheduled_time_us is now + ((trigger_angle - angle) mod
\* 720) * us_per_degree, and its hardware timer is armed for that time.
CexC12_UpdateAngleRearmsTimers ==
    last.op = "scheduler_update_angle" =>
        \A i \in ActiveSlots(sched) :
            LET e == sched.events[i]
            IN  /\ e.scheduled_time_us =
                       Add32(now, SchedulerAngleToTime(sched, e.trigger_angle))
                /\ hw.events[e.hw_event_id].active
                /\ hw.events[e.hw_event_id].scheduled_time_us
                       = e.scheduled_time_us

\* C13 as stated: when the timer interrupt of a pending event is serviced,
\* its action runs (once), events_fired grows by 1, and if the service comes
\* more than 100 us after the time the timer was armed for, events_missed
\* grows by 1 as well.
CexC13_LateFiringCounted ==
    [][ (last'.op = "hw_scheduler_ftm_isr" /\ last'.ret = 1) =>
          \A slot \in last'.slots :
              LET armed == hw.events[sched.events[slot].hw_event_id]
              IN  /\ last'.seq \notin hist.fired
                  /\ hw'.events_fired = hw.events_fired + 1
                  /\ (now - armed.scheduled_time_us > LATE_TOLERANCE_US)
                        => hw'.events_missed = hw.events_missed + 1
      ]_vars

(***************************************************************************)
(* Claims about the ignition controller                                    *)
(***************************************************************************)
\* C14: after ignition_check_over_dwell(now) has returned, no coil is in
\* state CHARGING with (now - charge_start_time) mod 2^32 > max_dwell_us
CexC14_NoCoilOverDwellAfterCheck ==
    last.op = "ignition_check_over_dwell" =>
        \A i \in CoilIds :
            ~( /\ i < ign.num_coils
               /\ ign.state[i] = "COIL_STATE_CHARGING"
               /\ LtU(ign.max_dwell_us,
                      Sub32(now, ign.charge_start_time[i])) )

(***************************************************************************)
(* Claims about the engine controller                                      *)
(***************************************************************************)
\* C15: the value calculate_fuel_pulse returns lies in [500, 20000]
\* microseconds, for every ECU state and sensor input, the engine not
\* running included
CexC15_PulseWithinClamp ==
    last.op = "calculate_fuel_pulse" =>
        (LeU(MIN_PULSE_US, last.ret) /\ LeU(last.ret, MAX_PULSE_US))

\* C16: over any sequence of update_closed_loop_fuel calls, whatever the
\* target and actual AFR, integral_error stays within [-20, 20] and
\* correction within [0.8, 1.2]; and once the error keeps one sign for good,
\* integral_error reaches the bound of that sign and stays there
ThmC16_IntegralSaturates ==
    /\ [](/\ ecu.integral_error >= 0 - INTEGRAL_LIMIT
          /\ ecu.integral_error <= INTEGRAL_LIMIT
          /\ ecu.correction >= CORRECTION_MIN
          /\ ecu.correction <= CORRECTION_MAX)
    /\ (<>[](last.arg > 0) => <>[](ecu.integral_error = INTEGRAL_LIMIT))
    /\ (<>[](last.arg < 0) => <>[](ecu.integral_error = 0 - INTEGRAL_LIMIT))

WitC16_SaturatedUnderLeanError ==
    /\ last.op = "update_closed_loop_fuel"
    /\ last.arg > 0
    /\ ecu.closed_loop_active
    /\ ecu.integral_error = INTEGRAL_LIMIT
    /\ ecu.correction = CORRECTION_MAX

\* C17: after every ecu_update_sensors call closed_loop_active is true
\* exactly when the coolant is above 60 C and the RPM above 100; whenever
\* closed_loop_active is false integral_error is 0; and an
\* update_closed_loop_fuel call made while closed_loop_active is false
\* changes neither integral_error nor correction
ThmC17_ClosedLoopGating ==
    /\ [](~ecu.closed_loop_active => ecu.integral_error = 0)
    /\ [][ /\ last'.op = "ecu_update_sensors" =>
                (ecu'.closed_loop_active <=>
                    (ecu'.clt_celsius > CLOSED_LOOP_CLT
                     /\ ecu'.rpm > RUNNING_RPM))
           /\ (last'.op = "update_closed_loop_fuel"
               /\ ~ecu.closed_loop_active) =>
                (/\ ecu'.integral_error = ecu.integral_error
                 /\ ecu'.correction = ecu.correction)
       ]_vars

WitC17_CoolingSwitchesLoopOff ==
    /\ last.op = "ecu_update_sensors"
    /\ last.arg # 0
    /\ ecu.rpm > RUNNING_RPM
    /\ ecu.clt_celsius <= CLOSED_LOOP_CLT
    /\ ~ecu.closed_loop_active
    /\ ecu.integral_error = 0

(***************************************************************************)
(* Claims about the RPM calculator                                         *)
(***************************************************************************)
\* C18: rpm_calculator_check_timeout(now) sets rpm = instant_rpm = 0 and
\* stopped = true when (now - last_update_time) mod 2^32 > timeout_us, for
\* every update time, and leaves the three alone otherwise; an accepted
\* on_tooth clears stopped
CexC18_TimeoutForcesZero ==
    [][ /\ last'.op = "rpm_calculator_check_timeout" =>
             IF LtU(rpmc.timeout_threshold_us,
                    Sub32(now, rpmc.last_update_time))
             THEN rpmc'.rpm = 0 /\ rpmc'.instant_rpm = 0 /\ rpmc'.stopped
             ELSE /\ rpmc'.rpm = rpmc.rpm
                  /\ rpmc'.instant_rpm = rpmc.instant_rpm
                  /\ rpmc'.stopped = rpmc.stopped
        /\ (/\ last'.op = "rpm_calculator_on_tooth"
            /\ last'.arg >= MIN_RPM_PERIOD_US
            /\ last'.id > 0) => ~rpmc'.stopped
      ]_vars

\* C19: whenever the last update is older than timeout_us, so that
\* rpm_calculator_is_running(now) is false, rpm_calculator_get_rpm and
\* rpm_calculator_get_instant_rpm return 0
CexC19_TimedOutReportsZero ==
    (/\ LtU(rpmc.timeout_threshold_us, Sub32(now, rpmc.last_update_time))
     /\ ~RpmCalculatorIsRunning(rpmc, now))
        => (/\ RpmCalculatorGetRpm(rpmc) = 0
            /\ RpmCalculatorGetInstantRpm(rpmc) = 0)

\* C20: rpm_calculator_on_tooth(P, N, now) with P > 0 and N > 0 sets
\* instant_rpm = min(65535, 60000000 \div (P * N)) and last_update_time = now
CexC20_InstantRpmFormula ==
    (/\ last.op = "rpm_calculator_on_tooth"
     /\ last.arg > 0
     /\ last.id > 0)
        => (/\ rpmc.instant_rpm =
                   (IF RPM_US_PER_MINUTE \div (last.arg * last.id) > UINT16_MAX
                    THEN UINT16_MAX
                    ELSE RPM_US_PER_MINUTE \div (last.arg * last.id))
            /\ rpmc.last_update_time = now)

\* The on_tooth call just made passed the period and teeth checks
ToothAccepted(l) ==
    /\ l.op = "rpm_calculator_on_tooth"
    /\ l.arg >= MIN_RPM_PERIOD_US
    /\ l.id > 0

\* C21: with a filter coefficient in (0, 1], an accepted on_tooth moves the
\* filtered rpm toward the instant rpm R without overshooting, and as long
\* as the filtered rpm is more than 1 rpm away from R it moves strictly
\* closer, so that repeated calls with the same R reach R within 1 rpm
CexC21_FilterMovesTowardInstant ==
    [][ (/\ ToothAccepted(last')
         /\ rpmc.filter_coefficient > 0
         /\ rpmc.rpm # 0) =>
            LET R == rpmc'.instant_rpm
            IN  /\ Distance(rpmc'.rpm, R) <= Distance(rpmc.rpm, R)
                /\ (rpmc.rpm <= R) => (rpmc'.rpm <= R)
                /\ (rpmc.rpm >= R) => (rpmc'.rpm >= R)
                /\ Distance(rpmc.rpm, R) > 1 =>
                       Distance(rpmc'.rpm, R) < Distance(rpmc.rpm, R)
      ]_vars

\* C22: an accepted on_tooth that finds the filtered rpm below
\* cranking_rpm_threshold filters with cranking_filter_coeff, and after it
\* rpm_calculator_is_cranking is true exactly when rpm is below
\* cranking_rpm_threshold
CexC22_CrankingFilterUsed ==
    [][ (ToothAccepted(last') /\ rpmc.rpm # 0) =>
            /\ RpmCalculatorIsCranking(rpmc')
                   <=> (rpmc'.rpm < rpmc'.cranking_rpm_threshold)
            /\ (rpmc.rpm < rpmc.cranking_rpm_threshold) =>
                   rpmc'.rpm =
                       (rpmc'.instant_rpm * rpmc.cranking_filter_coeff
                        + rpmc.rpm * (100 - rpmc.cranking_filter_coeff))
                       \div 100
      ]_vars

(***************************************************************************)
(* Claims about angle-to-time conversion in the angle scheduler            *)
(***************************************************************************)

\* the time an angle delta takes at rpm, in whole microseconds:
\* floor(delta * 60000000 / (rpm * 360))
AngleTimeUs(delta, rpm) == MulDiv(US_PER_MINUTE, delta, rpm * DEGREES_PER_REV)

AddEventAccepted == last.op = "scheduler_add_event" /\ last.ret = 1

\* C23 as stated: with rpm >= 100, an accepted scheduler_add_event leaves the
\* event, and the hardware timer armed for it, at
\* now + ((angle - current_angle) mod 720) * 60000000 / (rpm * 360)
\* microseconds, to the microsecond
CexC23_FireTimeFromAngle ==
    (AddEventAccepted /\ sched.rpm >= MIN_RPM_FOR_SCHEDULING) =>
        \A i \in last.slots :
            LET e     == sched.events[i]
                exact == Add32(now, AngleTimeUs(
                             AngleDelta(e.trigger_angle, sched.current_angle),
                             sched.rpm))
            IN  /\ Distance(e.scheduled_time_us, exact) <= 1
                /\ hw.events[e.hw_event_id].active
                /\ hw.events[e.hw_event_id].scheduled_time_us
                       = e.scheduled_time_us

\* delta * us_per_degree does not fit in 32 bits; with the sentinel
\* 0xFFFFFFFF that is every delta of 2 degrees or more
ProductOverflows(us_per_degree, delta) ==
    us_per_degree = UINT32_ALL_ONES /\ delta >= 2

\* the slots whose scheduled_time_us the last call computed
RecomputedSlots ==
    IF AddEventAccepted THEN last.slots
    ELSE IF last.op = "scheduler_update_angle" THEN ActiveSlots(sched)
    ELSE {}

\* C24 as stated: while rpm is below MIN_RPM_FOR_SCHEDULING and us_per_degree
\* holds the sentinel, no scheduler_add_event and no recomputation in
\* scheduler_update_angle leaves an event at the wrapped time
\* now + delta * 0xFFFFFFFF (mod 2^32), which is delta us before now, and no
\* hardware timer is armed at such a time
CexC24_SentinelPreventsScheduling ==
    (sched.rpm < MIN_RPM_FOR_SCHEDULING /\ sched.us_per_degree = UINT32_ALL_ONES) =>
        \A i \in RecomputedSlots :
            LET e     == sched.events[i]
                delta == AngleDelta(e.trigger_angle, sched.current_angle)
                wrapped == Sub32(now, delta)
            IN  ProductOverflows(sched.us_per_degree, delta) =>
                    /\ e.scheduled_time_us # wrapped
                    /\ ~(/\ AddEventAccepted
                          /\ hw.events[e.hw_event_id].active
                          /\ hw.events[e.hw_event_id].scheduled_time_us = wrapped)

(***************************************************************************)
(* Claims about camshaft synchronisation                                   *)
(***************************************************************************)
CamEventProcessed(l) == l.op = "cam_sync_process_event"

\* the sample just processed was a rising edge
CamRisingEdge == last'.arg = 1 /\ ~cam.prev_cam_signal

\* C25: counted from cam_sync_init / cam_sync_reset, the first rising edge
\* sets the baseline phase and leaves the cycle unsynced; the second one
\* toggles the phase, sets cycle_synced and invokes the registered sync
\* callback exactly once, with the new phase; every later one toggles the
\* phase and keeps the sync; a falling edge or a repeated sample changes
\* neither the phase nor the sync status; only the second rising edge
\* invokes the callback
ThmC25_CamSyncSequence ==
    [][ CamEventProcessed(last') =>
          /\ (CamRisingEdge /\ last'.seq = 1) =>
                 /\ cam'.cycle_phase = "CYCLE_PHASE_FIRST_360"
                 /\ ~CamSyncIsSynced(cam')
                 /\ last'.ret = 0
          /\ (CamRisingEdge /\ last'.seq = 2) =>
                 /\ cam.cycle_phase = "CYCLE_PHASE_FIRST_360"
                 /\ ~CamSyncIsSynced(cam)
                 /\ cam'.cycle_phase = "CYCLE_PHASE_SECOND_360"
                 /\ CamSyncIsSynced(cam')
                 /\ last'.ret = IF cam.g_sync_callback # "NULL" THEN 1 ELSE 0
                 /\ last'.ret = 1 => last'.reason = cam'.cycle_phase
          /\ (CamRisingEdge /\ last'.seq >= 3) =>
                 /\ CamSyncIsSynced(cam) /\ CamSyncIsSynced(cam')
                 /\ cam.cycle_phase # "CYCLE_PHASE_UNKNOWN"
                 /\ cam'.cycle_phase = OtherPhase(cam.cycle_phase)
                 /\ last'.ret = 0
          /\ ~CamRisingEdge =>
                 /\ cam'.cycle_phase = cam.cycle_phase
                 /\ cam'.cycle_synced = cam.cycle_synced
                 /\ last'.seq = last.seq
                 /\ last'.ret = 0
      ]_vars

\* after a reset the cam has synchronised a second time, on the second
\* rising edge, and the callback has just run
WitC25_ResyncedAfterReset ==
    /\ CamEventProcessed(last)
    /\ last.seq = 2
    /\ last.ret = 1
    /\ cam.sync_count = 2
    /\ CamSyncGetPhase(cam) = "CYCLE_PHASE_SECOND_360"

(***************************************************************************)
(* Claims about the wall-wetting compensation                              *)
(***************************************************************************)
WallTolerance == 100     \* micrograms: 1% of the desired mass of the model

\* the film mass beta * D / (1 - alpha)
FilmFixedPoint(e, desired) == MulDiv(desired, e.beta, 100 - e.alpha)

\* the film is at its fixed point and the commanded mass at the desired
\* mass, both within the tolerance
WallSettled ==
    /\ last.op = "update_wall_wetting"
    /\ ecu.fuel_film_mass.k = "fin"
    /\ Distance(ecu.fuel_film_mass.v, FilmFixedPoint(ecu, last.arg))
           <= WallTolerance
    /\ Distance(last.ret, last.arg) <= WallTolerance

\* the error of the film shrinks from cycle to cycle:
\* |alpha - beta| < 1 - beta, or the beta >= 0.99 branch is taken
WallContracts(e) ==
    \/ e.beta >= 99
    \/ Distance(e.alpha, e.beta) < 100 - e.beta

InjectorsAsked == last.op = "get_injectors_to_fire"

\* the distance of two angles on the 720-degree circle
CircularDistance(a, b) ==
    IF Distance(a, b) > DEGREES_PER_REV
    THEN FULL_CYCLE_ANGLE - Distance(a, b) ELSE Distance(a, b)

\* C27 as stated: in every injection mode, get_injectors_to_fire(a) sets bit
\* c exactly when the injection timing computed for cylinder c is within 5
\* degrees of a, on either side, on the 720-degree circle
CexC27_FiringWindowBothSides ==
    InjectorsAsked =>
        \A c \in 0..(ecu.num_cylinders - 1) :
            (c \in last.slots)
                <=> CircularDistance(
                        CalculateInjectionTimingForMode(ecu, last.arg, c),
                        last.arg) <= INJECTION_TOLERANCE

\* the angles of a cycle
CycleAngles == 0..(FULL_CYCLE_ANGLE - 1)

EngStateUpdated(l) ==
    l.op \in {"engine_controller_update", "engine_controller_update_state"}

\* C29 as stated: engine_controller_update_state yields Stopped for rpm 0
\* and Cranking for 0 < rpm < cranking_rpm, from every state; with rpm >=
\* cranking_rpm, from Running, Idle or DecelFuelCut, it yields Idle iff
\* |rpm - idle_rpm_target| < 200 and the throttle is under 5%, else
\* DecelFuelCut iff the throttle is 0 and rpm > idle_rpm_target + 500, else
\* Running; LimpMode is never entered
CexC29_StateClassification ==
    [][ EngStateUpdated(last') =>
          LET rpm  == last'.arg
              idle == eng.config.idle_rpm_target
              tps  == eng.sensors.tps_percent
          IN  /\ rpm = 0 => eng'.state = "ENGINE_STATE_STOPPED"
              /\ (0 < rpm /\ rpm < eng.config.cranking_rpm) =>
                     eng'.state = "ENGINE_STATE_CRANKING"
              /\ (/\ rpm >= eng.config.cranking_rpm
                  /\ eng.state \in {"ENGINE_STATE_RUNNING", "ENGINE_STATE_IDLE",
                                     "ENGINE_STATE_DECEL_FUEL_CUT"}) =>
                     eng'.state =
                         IF Distance(rpm, idle) < IDLE_RPM_WINDOW
                            /\ tps < IDLE_TPS_PERCENT
                         THEN "ENGINE_STATE_IDLE"
                         ELSE IF tps = 0 /\ rpm > idle + DECEL_RPM_MARGIN
                         THEN "ENGINE_STATE_DECEL_FUEL_CUT"
                         ELSE "ENGINE_STATE_RUNNING"
              /\ eng'.state # "ENGINE_STATE_LIMP_MODE"
      ]_vars

\* C30: an update that finds Warmup, with rpm >= cranking_rpm, leaves Warmup
\* unless the coolant reading is valid and at least 80 C, and then leaves
\* Running; Warmup is entered only by such an update from Stopped or
\* Cranking with a valid coolant reading under 60 C; no step leads from
\* Warmup to Idle or DecelFuelCut
ThmC30_WarmupExit ==
    [][ /\ (/\ EngStateUpdated(last')
            /\ eng.state = "ENGINE_STATE_WARMUP"
            /\ last'.arg >= eng.config.cranking_rpm) =>
               eng'.state = IF /\ eng.sensors.clt_valid
                               /\ eng.sensors.clt_celsius >= WARMUP_EXIT_CELSIUS
                            THEN "ENGINE_STATE_RUNNING"
                            ELSE "ENGINE_STATE_WARMUP"
        /\ (/\ eng'.state = "ENGINE_STATE_WARMUP"
            /\ eng.state # "ENGINE_STATE_WARMUP") =>
               /\ EngStateUpdated(last')
               /\ last'.arg >= eng.config.cranking_rpm
               /\ eng.state \in {"ENGINE_STATE_STOPPED", "ENGINE_STATE_CRANKING"}
               /\ eng.sensors.clt_valid
               /\ eng.sensors.clt_celsius < WARMUP_ENTRY_CELSIUS
        /\ eng.state = "ENGINE_STATE_WARMUP" =>
               eng'.state \notin {"ENGINE_STATE_IDLE",
                                  "ENGINE_STATE_DECEL_FUEL_CUT"}
      ]_vars

\* an update has just taken a warmed-up engine from Warmup to Running
WitC30_WarmedUpToRunning ==
    /\ EngStateUpdated(last)
    /\ last.reason = "ENGINE_STATE_WARMUP"
    /\ last.arg >= eng.config.cranking_rpm
    /\ eng.state = "ENGINE_STATE_RUNNING"
    /\ eng.sensors.clt_valid
    /\ eng.sensors.clt_celsius >= WARMUP_EXIT_CELSIUS

\* the call just made is one of those that can change the engine state
EngStateOperation(l) ==
    l.op \in {"engine_controller_update", "engine_controller_update_state",
              "engine_controller_emergency_shutdown"}

\* C31 as stated: a call of engine_controller_update,
\* engine_controller_update_state or engine_controller_emergency_shutdown
\* that changes the engine state leaves state_entry_time at the time of the
\* call, and one that leaves the state alone leaves state_entry_time alone
CexC31_EntryTimeFollowsState ==
    [][ EngStateOperation(last') =>
          IF eng'.state # eng.state
          THEN eng'.state_entry_time = now'
          ELSE eng'.state_entry_time = eng.state_entry_time
      ]_vars

(***************************************************************************)
(* Claims about the scheduler's counters and the timer interrupt's frame   *)
(***************************************************************************)
\* the timer interrupt just serviced ran an event's action
ActionExecuted(l) == l.op = "hw_scheduler_ftm_isr" /\ l.ret = 1

\* the event of slot i of s was due more than the tolerance before t
ExecutedLate(s, i, t) ==
    LtU(Add32(s.events[i].scheduled_time_us, LATE_TOLERANCE_US), t)

\* C32 as stated: of the counters scheduler_get_stats returns, scheduled
\* goes up by one with every successful scheduler_add_event, fired with
\* every executed action, missed with every action executed later than the
\* tolerance, and cancelling changes none of them
CexC32_StatsCountEvents ==
    [][ /\ last'.op = "scheduler_add_event" =>
              /\ sched'.events_scheduled = sched.events_scheduled + last'.ret
              /\ sched'.events_fired = sched.events_fired
              /\ sched'.events_missed = sched.events_missed
        /\ last'.op = "hw_scheduler_ftm_isr" =>
              /\ sched'.events_scheduled = sched.events_scheduled
              /\ sched'.events_fired = sched.events_fired + last'.ret
              /\ sched'.events_missed = sched.events_missed +
                     Cardinality({i \in last'.slots :
                                     ExecutedLate(sched, i, now)})
        /\ last'.op \in {"scheduler_clear_events",
                         "scheduler_remove_cylinder_events"} =>
              /\ sched'.events_scheduled = sched.events_scheduled
              /\ sched'.events_fired = sched.events_fired
              /\ sched'.events_missed = sched.events_missed
      ]_vars

\* C33 as stated: num_active_events, which scheduler_get_active_count
\* returns, is the number of slots with active = true, and at most 16
CexC33_ActiveCountMatchesSlots ==
    /\ sched.num_active_events = Cardinality(ActiveSlots(sched))
    /\ sched.num_active_events <= MAX_SCHEDULED_EVENTS

(***************************************************************************)
(* Claims about the injector outputs                                       *)
(***************************************************************************)
ActiveInjectors(j) ==
    {c \in InjectorIds : j.state[c] = "INJECTOR_STATE_ACTIVE"}

\* an injector of the configured ones has just been disabled
InjectorDisabled(l, j) ==
    l.op = "injector_enable" /\ l.ret = 0 /\ l.arg < j.num_injectors

\* C34 as stated: injector_enable(c, false) leaves injector c idle with its
\* pin at the off level, whatever it was before; an active injector is
\* always an enabled one; after injector_emergency_shutdown no injector is
\* active
CexC34_DisableTurnsOff ==
    [][ /\ InjectorDisabled(last', injc) =>
              /\ injc'.state[last'.arg] = "INJECTOR_STATE_IDLE"
              /\ injc'.level[last'.arg] =
                     OffLevel(injc'.config[last'.arg].invert_polarity)
        /\ \A c \in ActiveInjectors(injc') : injc'.config[c].enabled
        /\ last'.op = "injector_emergency_shutdown" =>
              ActiveInjectors(injc') = {}
      ]_vars

(***************************************************************************)
(* Claims about failed multi-stage schedule calls                          *)
(***************************************************************************)
ActiveMsSlots(m) == {j \in MsIds : m.events[j].active}

\* C35 as stated: a multi-stage schedule call that returns -1 leaves the
\* set of active multi-stage slots and num_active as they were, and
\* num_active is the number of active multi-stage slots after every step
CexC35_FailedScheduleLeaksNoSlot ==
    [][ /\ (last'.op \in MsScheduleOps /\ last'.ret = -1) =>
              /\ ActiveMsSlots(ms') = ActiveMsSlots(ms)
              /\ ms'.num_active = ms.num_active
        /\ ms'.num_active = Cardinality(ActiveMsSlots(ms'))
      ]_vars

(***************************************************************************)
(* Claims about interrupts between the statements of a scheduler call      *)
(***************************************************************************)
\* every armed hardware timer has an active scheduler slot as its context
ArmedTimersBelongToActiveSlots(s, h) ==
    \A g \in ArmedHwEvents(h) :
        h.events[g].context >= 0 /\ s.events[h.events[g].context].active

\* C36 as stated: with the timer interrupt and the sync-loss flush free to
\* come between any two statements of scheduler_add_event and
\* scheduler_remove_cylinder_events, every armed hardware timer belongs to
\* an active scheduler slot at every point, no action is executed for an
\* event that was flushed, and between calls num_active_events is at least
\* the number of active slots and at most 16
CexC36_InterleavingSafe ==
    [][ /\ ArmedTimersBelongToActiveSlots(sched', hw')
        /\ ActionExecuted(last') => last'.seq \notin hist.cancelled
        /\ main'.pc = "idle" =>
              /\ sched'.num_active_events >= Cardinality(ActiveSlots(sched'))
              /\ sched'.num_active_events <= MAX_SCHEDULED_EVENTS
      ]_vars

\* the hardware events that a step changed
ChangedHwEvents(h, h2) == {g \in HwIds : h2.events[g] # h.events[g]}

\* C37: a timer interrupt that runs an event's action runs it for the first
\* time, clears active and hw_event_id of that event's slot and changes
\* nothing else of the scheduler; of the hardware events it changes only
\* the one armed for that slot, which it disarms, and it frees that event's
\* FTM channel and no other
ThmC37_TimerCallbackFrame ==
    [][ ActionExecuted(last') =>
          \E slot \in last'.slots :
              /\ last'.slots = {slot}
              /\ last'.seq = sched.events[slot].seq
              /\ last'.seq \notin hist.fired
              /\ sched' = [sched EXCEPT !.events[slot].active = FALSE,
                                        !.events[slot].hw_event_id = -1]
              /\ \E g \in ArmedHwEvents(hw) :
                     /\ ChangedHwEvents(hw, hw') = {g}
                     /\ hw.events[g].context = slot
                     /\ hw'.events[g] = [hw.events[g] EXCEPT !.active = FALSE]
                     /\ ftm_channel_allocated' = ftm_channel_allocated \
                            {<<hw.events[g].ftm, hw.events[g].channel>>}
      ]_vars

\* the interrupt has run one event's action while another event of the same
\* cylinder and one of the other cylinder were still pending, their timers
\* armed
WitC37_FiredBesidePendingEvents ==
    /\ ActionExecuted(last)
    /\ \E i, j \in ActiveSlots(sched) :
           /\ sched.events[i].cylinder = last.arg
           /\ sched.events[j].cylinder # last.arg
           /\ hw.events[sched.events[i].hw_event_id].active
           /\ hw.events[sched.events[j].hw_event_id].active

(***************************************************************************)
(* Claims about the hardware timer's resources                             *)
(***************************************************************************)
\* the FTM channels of the armed hardware events
ArmedChannels(h) ==
    {<<h.events[g].ftm, h.events[g].channel>> : g \in ArmedHwEvents(h)}

\* C38 as stated: the allocated FTM channels are as many as the armed
\* hardware events and as num_active says, at most 8; no two armed events
\* share a channel, and every allocated channel is that of an armed event
CexC38_TimerResourcesAccounted ==
    /\ Cardinality(ftm_channel_allocated) = Cardinality(ArmedHwEvents(hw))
    /\ hw.num_active = Cardinality(ArmedHwEvents(hw))
    /\ hw.num_active <= HW_SCHEDULER_MAX_EVENTS
    /\ Cardinality(ArmedChannels(hw)) = Cardinality(ArmedHwEvents(hw))
    /\ ftm_channel_allocated = ArmedChannels(hw)

(***************************************************************************)
(* Claims about the acceleration tracking                                  *)
(***************************************************************************)
\* C39 as stated: a call of rpm_calculator_update_acceleration at least
\* 100 ms after the previous sample sets rpm_acceleration to
\* (rpm - prev_rpm) * 1000000 / elapsed_us, accelerating iff that is above
\* +50 and decelerating iff it is below -50, never both; a call less than
\* 100 ms after the previous sample changes nothing
CexC39_AccelerationTracked ==
    [][ last'.op = "rpm_calculator_update_acceleration" =>
          LET elapsed == Sub32(now, rpmc.prev_rpm_time)
              exact   == ExactRpmPerSecond(rpmc.rpm - rpmc.prev_rpm, elapsed)
          IN  /\ AccelerationSampleDue(rpmc, now) =>
                    /\ rpmc'.rpm_acceleration = exact
                    /\ rpmc'.accelerating =
                           (exact > ACCEL_THRESHOLD_RPM_PER_SEC)
                    /\ rpmc'.decelerating =
                           (exact < 0 - ACCEL_THRESHOLD_RPM_PER_SEC)
                    /\ ~(rpmc'.accelerating /\ rpmc'.decelerating)
              /\ (rpmc.prev_rpm_time # 0 /\ ~AccelerationSampleDue(rpmc, now))
                    => rpmc' = rpmc
      ]_vars

(***************************************************************************)
(* Claims about the reuse of slots                                         *)
(***************************************************************************)
\* no FTM channel is held without an armed event: scheduler_init has not
\* been called anew over pending events
NoChannelLost == ftm_channel_allocated = ArmedChannels(hw)

\* C40 as stated: the slot, the hardware event and the FTM channel of an
\* event are free once its action has run or it was cancelled, and a
\* scheduler_add_event with an action succeeds whenever fewer events are
\* pending than the scheduler's capacity of 16
CexC40_SlotsReusedUpToCapacity ==
    [][ /\ (ActionExecuted(last') \/ last'.op = "scheduler_clear_events") =>
              \A i \in ActiveSlots(sched) \ ActiveSlots(sched') :
                  LET g == sched.events[i].hw_event_id
                  IN  /\ ~hw'.events[g].active
                      /\ <<hw.events[g].ftm, hw.events[g].channel>>
                             \notin ftm_channel_allocated'
        /\ (/\ last'.op = "scheduler_add_event"
            /\ last'.reason # "null_action"
            /\ NoChannelLost
            /\ Cardinality(ActiveSlots(sched)) < MAX_SCHEDULED_EVENTS)
               => last'.ret = 1
      ]_vars

====
